---- MODULE Spec2Model ----
(***************************************************************************)
(* Model of the dictionary deinflection-and-lookup engine of Mangatan's    *)
(* yomitan-server crate:                                                   *)
(*   - deinflector/transformer.rs : condition flag table, rule compiler,   *)
(*     transformation engine (transform_with_trace, deinflect_terms);      *)
(*   - lookup.rs : LookupService::search with candidate generation,        *)
(*     validity filter, store lookup and ranking.                          *)
(* Texts are sequences of Unicode code points (integers).                  *)
(***************************************************************************)
EXTENDS Integers, Sequences, FiniteSets, TLC

VARIABLES
    \* ---- transformation engine (transformer.rs) ----
    transformer,   \* LanguageTransformer.transforms: Seq of [id, rules]
    source_text,   \* argument of transform_with_trace
    results,       \* Vec<TransformedTextTrace>
    traces,        \* Vec<Vec<TraceFrame>>
    i,             \* worklist index of transform_with_trace
    tpc,           \* position: "loop", "done", "terms", "overflow"
    terms,         \* value returned by deinflect_terms
    \* ---- build_condition_flags (transformer.rs) ----
    conditions,          \* descriptor.conditions: name -> Option<sub_conditions>
    targets,             \* conditions still to resolve, in visiting order
    rest,                \* what the running `for` sweep has yet to visit
    next_targets,        \* composites the running sweep could not resolve
    target_len,          \* targets.len() at the start of the running sweep
    condition_flags_map, \* HashMap<String, u32> being built
    next_flag_index,     \* next unused bit
    bpc,                 \* position: "while", "for", "ok", "err_cycle", "err_max"
    \* ---- LookupService::search (lookup.rs) ----
    query_text,          \* argument `text`
    cursor_offset,       \* argument `cursor_offset`, a byte offset
    dictionaries,        \* state.dictionaries: id -> [enabled, priority]
    terms_table,         \* rows of the `terms` table, in rowid order
    tokenizer,           \* what Lindera answers for each text it is given
    call,                \* which of two successive calls of search is running
    dict_configs,        \* the call's snapshot of state.dictionaries
    chars,               \* the window: at most 24 chars from the snapped cursor
    script,              \* detect_script(&chars)
    len,                 \* loop variable of `for len in (1..=chars.len()).rev()`
    processed_candidates, \* HashSet<String> of candidate words already looked up
    submitted,           \* the store queries made so far: [substring, word]
    found,               \* the `results` vector of search
    returned,            \* call -> Option<the vector search returned>
    spc,                 \* position: "start", "loop", "returned", "panicked"
    \* ---- compose_hangul(decompose_hangul(s)) round trip (lookup.rs) ----
    hangul_text,          \* a string of precomposed syllable blocks
    hangul_jamo,          \* decompose_hangul(hangul_text)
    hangul_out,           \* compose_hangul(hangul_jamo)
    hpc,                 \* position: "start", "decomposed", "composed"
    \* ---- LanguageTransformer::from_descriptor (transformer.rs) ----
    descriptor,           \* descriptor.transforms: Seq of [id, rules]
    built_transforms,     \* the `transforms` vector being built
    built_rules,          \* the `rules` vector of the transform being compiled
    transform_pos,        \* how many transform definitions are done
    rule_pos,             \* rule_index of the rule to compile next
    compile_result,       \* None, or what from_descriptor returned
    cpc,                 \* position: "rules", "ok", "err"
    \* ---- import_zip (import.rs) ----
    state_dictionaries,   \* state.dictionaries as import_zip sees it: id -> name
    next_dict_id,         \* state.next_dict_id
    dict_name,            \* per import thread: the title of the archive it is importing
    import_dict_id,       \* per import thread: the id it registered
    import_result,        \* per import thread: what its last call returned
    ipc,                 \* per import thread: position in import_zip
    \* ---- RuleKind::is_inflected / RuleKind::deinflect on one text ----
    rule_kind,            \* the RuleKind under test
    rule_text,            \* the text handed to it
    rule_matched,         \* what is_inflected returned
    rule_result,          \* what deinflect returned (Option)
    rule_pc,             \* "idle", "start", "tested", "done" or "skipped"
    \* ---- manage_dictionaries_handler (handlers.rs) ----
    dictionaries_table,   \* the persisted `dictionaries` table: id -> [enabled, priority]
    manage_action,        \* the DictionaryAction being handled (Option)
    manage_tx,            \* the open transaction: the table as its statements left it
    manage_result,        \* the status of the last response (Option)
    manage_count,         \* how many actions have been answered
    mpc                  \* position: "off", "ready" or "commit"

engineVars == <<transformer, source_text, results, traces, i, tpc, terms>>

flagVars == <<conditions, targets, rest, next_targets, target_len,
              condition_flags_map, next_flag_index, bpc>>

searchVars == <<query_text, cursor_offset, dictionaries, terms_table, tokenizer,
                call, dict_configs, chars, script, len, processed_candidates,
                submitted, found, returned, spc>>

hangulVars == <<hangul_text, hangul_jamo, hangul_out, hpc>>

compileVars == <<descriptor, built_transforms, built_rules, transform_pos, rule_pos, compile_result, cpc>>

importVars == <<state_dictionaries, next_dict_id, dict_name, import_dict_id, import_result, ipc>>

rulekindVars == <<rule_kind, rule_text, rule_matched, rule_result, rule_pc>>

manageVars == <<dictionaries_table, manage_action, manage_tx, manage_result, manage_count, mpc>>

vars == <<engineVars, flagVars, searchVars, hangulVars, compileVars, importVars, rulekindVars, manageVars>>

\* the parts of the state a specification does not exercise stay idle
EngineIdle ==
    /\ transformer = <<>>
    /\ source_text = <<>>
    /\ results = <<>>
    /\ traces = <<>>
    /\ i = 0
    /\ tpc = "idle"
    /\ terms = <<>>

FlagsIdle ==
    /\ conditions = <<>>
    /\ targets = <<>>
    /\ rest = <<>>
    /\ next_targets = <<>>
    /\ target_len = 0
    /\ condition_flags_map = <<>>
    /\ next_flag_index = 0
    /\ bpc = "idle"

SearchIdle ==
    /\ query_text = <<>>
    /\ cursor_offset = 0
    /\ dictionaries = <<>>
    /\ terms_table = <<>>
    /\ tokenizer = <<>>
    /\ call = 0
    /\ dict_configs = <<>>
    /\ chars = <<>>
    /\ script = "Other"
    /\ len = 0
    /\ processed_candidates = {}
    /\ submitted = <<>>
    /\ found = <<>>
    /\ returned = <<>>
    /\ spc = "idle"

HangulIdle ==
    /\ hangul_text = <<>>
    /\ hangul_jamo = <<>>
    /\ hangul_out = <<>>
    /\ hpc = "idle"

CompileIdle ==
    /\ descriptor = <<>>
    /\ built_transforms = <<>>
    /\ built_rules = <<>>
    /\ transform_pos = 0
    /\ rule_pos = 0
    /\ compile_result = <<>>
    /\ cpc = "idle"

ImportIdle ==
    /\ state_dictionaries = <<>>
    /\ next_dict_id = 1
    /\ dict_name = <<>>
    /\ import_dict_id = <<>>
    /\ import_result = <<>>
    /\ ipc = <<>>

RulekindIdle ==
    /\ rule_kind = <<>>
    /\ rule_text = <<>>
    /\ rule_matched = FALSE
    /\ rule_result = <<>>
    /\ rule_pc = "idle"

ManageIdle ==
    /\ dictionaries_table = <<>>
    /\ manage_action = <<>>
    /\ manage_tx = <<>>
    /\ manage_result = <<>>
    /\ manage_count = 0
    /\ mpc = "off"

(***************************************************************************)
(* Text helpers (str::starts_with, ends_with, strip_prefix, strip_suffix)  *)
(***************************************************************************)
StartsWith(text, p) ==
    /\ Len(p) <= Len(text)
    /\ SubSeq(text, 1, Len(p)) = p

EndsWith(text, s) ==
    /\ Len(s) <= Len(text)
    /\ SubSeq(text, Len(text) - Len(s) + 1, Len(text)) = s

\* Option<T>: None is the empty sequence, Some(x) the one-element sequence.
None == <<>>
Some(x) == <<x>>
Unwrap(o) == o[1]

StripPrefix(text, p) ==
    IF StartsWith(text, p) THEN Some(SubSeq(text, Len(p) + 1, Len(text))) ELSE None

StripSuffix(text, s) ==
    IF EndsWith(text, s) THEN Some(SubSeq(text, 1, Len(text) - Len(s))) ELSE None

(***************************************************************************)
(* u32 condition flags.  A flags word is the set of the indexes (0..31) of *)
(* its set bits: 0 is {}, `1 << n` is {n}, `|` is union, `&` intersection. *)
(***************************************************************************)
NoFlags == {}
Bit(n) == {n}
BitAnd(a, b) == a \cap b
BitOr(a, b) == a \cup b

(***************************************************************************)
(* conditions_match                                                        *)
(***************************************************************************)
\* mutant of conditions_match: conditions 0 are no wildcard
conditions_match_NoWildcard(current, next) ==
    BitAnd(current, next) # NoFlags

\* mutant of conditions_match: a rule without input conditions matches too
conditions_match_EmptyInIsWildcard(current, next) ==
    current = NoFlags \/ next = NoFlags \/ BitAnd(current, next) # NoFlags

conditions_match(current, next) ==
    current = NoFlags \/ BitAnd(current, next) # NoFlags

(***************************************************************************)
(* get_condition_flags_strict: OR of the flags of the named conditions,    *)
(* None as soon as a name is missing from the map.                         *)
(***************************************************************************)
RECURSIVE get_condition_flags_strict(_, _)
get_condition_flags_strict(map, condition_types) ==
    IF condition_types = <<>> THEN Some(NoFlags)
    ELSE IF Head(condition_types) \notin DOMAIN map THEN None
    ELSE LET others == get_condition_flags_strict(map, Tail(condition_types))
         IN  IF others = None THEN None
             ELSE Some(BitOr(map[Head(condition_types)], Unwrap(others)))

(***************************************************************************)
(* matches_affix / deinflect_affix                                         *)
(***************************************************************************)
is_arabic_letter(c) ==
    \/ (c >= 1568 /\ c <= 1631)
    \/ (c >= 1646 /\ c <= 1747)
    \/ c = 1749
    \/ (c >= 1774 /\ c <= 1775)
    \/ (c >= 1786 /\ c <= 1788)
    \/ c = 1791

\* the guards of matches_affix on the stem between prefix and suffix
AffixGuards(middle, initial_disallow, final_disallow, require_arabic_letters) ==
    /\ require_arabic_letters =>
          /\ middle # <<>>
          /\ \A k \in DOMAIN middle : is_arabic_letter(middle[k])
    /\ ~(initial_disallow # None /\ middle # <<>> /\ Head(middle) = Unwrap(initial_disallow))
    /\ ~(final_disallow # None /\ middle # <<>>
            /\ middle[Len(middle)] = Unwrap(final_disallow))

\* mutant of matches_affix: prefix and suffix are tested on the whole text,
\* each on its own
matches_affix_Independent(text, inflected_prefix, inflected_suffix, initial_disallow, final_disallow, require_arabic_letters) ==
    /\ StartsWith(text, inflected_prefix)
    /\ EndsWith(text, inflected_suffix)
    /\ AffixGuards(IF Len(inflected_prefix) + Len(inflected_suffix) <= Len(text)
                   THEN SubSeq(text, Len(inflected_prefix) + 1,
                               Len(text) - Len(inflected_suffix))
                   ELSE <<>>,
                   initial_disallow, final_disallow, require_arabic_letters)

matches_affix(text, inflected_prefix, inflected_suffix, initial_disallow, final_disallow, require_arabic_letters) ==
    LET stripped_prefix == StripPrefix(text, inflected_prefix)
    IN  IF stripped_prefix = None THEN FALSE
        ELSE LET middle == StripSuffix(Unwrap(stripped_prefix), inflected_suffix)
             IN  IF middle = None THEN FALSE
                 ELSE AffixGuards(Unwrap(middle), initial_disallow, final_disallow,
                                  require_arabic_letters)

deinflect_affix(text, inflected_prefix, deinflected_prefix, inflected_suffix, deinflected_suffix) ==
    LET stripped_prefix == StripPrefix(text, inflected_prefix)
    IN  IF stripped_prefix = None THEN None
        ELSE LET middle == StripSuffix(Unwrap(stripped_prefix), inflected_suffix)
             IN  IF middle = None THEN None
                 ELSE Some(deinflected_prefix \o Unwrap(middle) \o deinflected_suffix)

(***************************************************************************)
(* The English phrasal-verb shapes                                         *)
(***************************************************************************)
\* char::is_whitespace (the Unicode White_Space property)
is_whitespace(c) ==
    \/ (c >= 9 /\ c <= 13)
    \/ c \in {32, 133, 160, 5760, 8232, 8233, 8239, 8287, 12288}
    \/ (c >= 8192 /\ c <= 8202)

\* the length of the run of non-whitespace characters s starts with
WordLen(s) ==
    IF \E k \in DOMAIN s : is_whitespace(s[k])
    THEN (CHOOSE k \in DOMAIN s :
              is_whitespace(s[k]) /\ \A j \in 1..(k - 1) : ~is_whitespace(s[j])) - 1
    ELSE Len(s)

\* str::split_whitespace, collected
RECURSIVE split_whitespace(_)
split_whitespace(s) ==
    IF s = <<>> THEN <<>>
    ELSE IF is_whitespace(Head(s)) THEN split_whitespace(Tail(s))
    ELSE << SubSeq(s, 1, WordLen(s)) >>
             \o split_whitespace(SubSeq(s, WordLen(s) + 1, Len(s)))

\* `fn english_phrasal_particles`: the words of the list as code point sequences
english_phrasal_particles ==
    { <<97, 98, 111, 97, 114, 100>>, <<97, 98, 111, 117, 116>>,
      <<97, 98, 111, 118, 101>>, <<97, 99, 114, 111, 115, 115>>,
      <<97, 104, 101, 97, 100>>,
      <<97, 108, 111, 110, 103, 115, 105, 100, 101>>,
      <<97, 112, 97, 114, 116>>, <<97, 114, 111, 117, 110, 100>>,
      <<97, 115, 105, 100, 101>>, <<97, 115, 116, 114, 97, 121>>,
      <<97, 119, 97, 121>>, <<98, 97, 99, 107>>,
      <<98, 101, 102, 111, 114, 101>>, <<98, 101, 104, 105, 110, 100>>,
      <<98, 101, 108, 111, 119>>, <<98, 101, 110, 101, 97, 116, 104>>,
      <<98, 101, 115, 105, 100, 101, 115>>,
      <<98, 101, 116, 119, 101, 101, 110>>, <<98, 101, 121, 111, 110, 100>>,
      <<98, 121>>, <<99, 108, 111, 115, 101>>, <<100, 111, 119, 110>>,
      <<101, 97, 115, 116>>, <<119, 101, 115, 116>>,
      <<110, 111, 114, 116, 104>>, <<115, 111, 117, 116, 104>>,
      <<101, 97, 115, 116, 119, 97, 114, 100>>,
      <<119, 101, 115, 116, 119, 97, 114, 100>>,
      <<110, 111, 114, 116, 104, 119, 97, 114, 100>>,
      <<115, 111, 117, 116, 104, 119, 97, 114, 100>>,
      <<102, 111, 114, 119, 97, 114, 100>>,
      <<98, 97, 99, 107, 119, 97, 114, 100>>,
      <<98, 97, 99, 107, 119, 97, 114, 100, 115>>,
      <<102, 111, 114, 119, 97, 114, 100, 115>>, <<104, 111, 109, 101>>,
      <<105, 110>>, <<105, 110, 115, 105, 100, 101>>,
      <<105, 110, 115, 116, 101, 97, 100>>, <<110, 101, 97, 114>>,
      <<111, 102, 102>>, <<111, 110>>,
      <<111, 112, 112, 111, 115, 105, 116, 101>>, <<111, 117, 116>>,
      <<111, 117, 116, 115, 105, 100, 101>>, <<111, 118, 101, 114>>,
      <<111, 118, 101, 114, 104, 101, 97, 100>>, <<112, 97, 115, 116>>,
      <<114, 111, 117, 110, 100>>, <<115, 105, 110, 99, 101>>,
      <<116, 104, 114, 111, 117, 103, 104>>,
      <<116, 104, 114, 111, 117, 103, 104, 111, 117, 116>>,
      <<116, 111, 103, 101, 116, 104, 101, 114>>,
      <<117, 110, 100, 101, 114>>,
      <<117, 110, 100, 101, 114, 110, 101, 97, 116, 104>>, <<117, 112>>,
      <<119, 105, 116, 104, 105, 110>>,
      <<119, 105, 116, 104, 111, 117, 116>> }

\* `fn english_phrasal_prepositions`: the words of the list as code point sequences
english_phrasal_prepositions ==
    { <<97, 98, 97, 99, 107>>, <<97, 98, 111, 117, 116>>,
      <<97, 98, 111, 118, 101>>, <<97, 99, 114, 111, 115, 115>>,
      <<97, 102, 116, 101, 114>>, <<97, 103, 97, 105, 110, 115, 116>>,
      <<97, 104, 101, 97, 100>>, <<97, 108, 111, 110, 103>>,
      <<97, 109, 111, 110, 103>>, <<97, 112, 97, 114, 116>>,
      <<97, 114, 111, 117, 110, 100>>, <<97, 115>>,
      <<97, 115, 105, 100, 101>>, <<97, 116>>, <<97, 119, 97, 121>>,
      <<98, 97, 99, 107>>, <<98, 101, 102, 111, 114, 101>>,
      <<98, 101, 104, 105, 110, 100>>, <<98, 101, 108, 111, 119>>,
      <<98, 101, 116, 119, 101, 101, 110>>, <<98, 101, 121, 111, 110, 100>>,
      <<98, 121>>, <<100, 111, 119, 110>>, <<101, 118, 101, 110>>,
      <<102, 111, 114>>, <<102, 111, 114, 116, 104>>,
      <<102, 111, 114, 119, 97, 114, 100>>, <<102, 114, 111, 109>>,
      <<105, 110>>, <<105, 110, 116, 111>>, <<111, 102>>, <<111, 102, 102>>,
      <<111, 110>>, <<111, 110, 116, 111>>, <<111, 112, 101, 110>>,
      <<111, 117, 116>>, <<111, 118, 101, 114>>, <<112, 97, 115, 116>>,
      <<114, 111, 117, 110, 100>>, <<116, 104, 114, 111, 117, 103, 104>>,
      <<116, 111>>, <<116, 111, 103, 101, 116, 104, 101, 114>>,
      <<116, 111, 119, 97, 114, 100>>, <<116, 111, 119, 97, 114, 100, 115>>,
      <<117, 110, 100, 101, 114>>, <<117, 112>>, <<117, 112, 111, 110>>,
      <<119, 97, 121>>, <<119, 105, 116, 104>>,
      <<119, 105, 116, 104, 111, 117, 116>> }

\* mutant of english_phrasal_word_set: the particles alone
english_phrasal_word_set_ParticlesOnly == english_phrasal_particles

\* `english_phrasal_particles().iter().chain(english_phrasal_prepositions())`
english_phrasal_word_set == english_phrasal_particles \cup english_phrasal_prepositions

\* Option<(stem, particle)>
english_phrasal_suffix(text, inflected) ==
    LET parts == split_whitespace(text)
    IN  IF Len(parts) # 2 THEN None
        ELSE IF parts[2] \notin english_phrasal_word_set THEN None
        ELSE IF StripSuffix(parts[1], inflected) = None THEN None
        ELSE Some(<< Unwrap(StripSuffix(parts[1], inflected)), parts[2] >>)

english_phrasal_interposed_object(text) ==
    LET words == split_whitespace(text)
    IN  IF Len(words) < 3 THEN None
        ELSE IF words[Len(words)] \notin english_phrasal_particles THEN None
        ELSE IF \E k \in 2..(Len(words) - 1) : words[k] \in english_phrasal_word_set
        THEN None
        ELSE Some(words[1] \o << 32 >> \o words[Len(words)])

(***************************************************************************)
(* RuleKind::is_inflected / RuleKind::deinflect                            *)
(***************************************************************************)
is_inflected(kind, text) ==
    CASE kind.type = "Suffix"    -> EndsWith(text, kind.inflected)
      [] kind.type = "Prefix"    -> StartsWith(text, kind.inflected)
      [] kind.type = "WholeWord" -> text = kind.inflected
      [] kind.type = "Affix" ->
            matches_affix(text, kind.inflected_prefix, kind.inflected_suffix,
                          kind.initial_disallow, kind.final_disallow,
                          kind.require_arabic_letters)
      [] kind.type = "EnglishPhrasalInterposedObject" ->
            english_phrasal_interposed_object(text) # None
      [] kind.type = "EnglishPhrasalSuffix" ->
            english_phrasal_suffix(text, kind.inflected) # None

deinflect(kind, text) ==
    CASE kind.type = "Suffix" ->
            IF StripSuffix(text, kind.inflected) = None THEN None
            ELSE Some(Unwrap(StripSuffix(text, kind.inflected)) \o kind.deinflected)
      [] kind.type = "Prefix" ->
            IF StripPrefix(text, kind.inflected) = None THEN None
            ELSE Some(kind.deinflected \o Unwrap(StripPrefix(text, kind.inflected)))
      [] kind.type = "WholeWord" ->
            IF text = kind.inflected THEN Some(kind.deinflected) ELSE None
      [] kind.type = "Affix" ->
            deinflect_affix(text, kind.inflected_prefix, kind.deinflected_prefix,
                            kind.inflected_suffix, kind.deinflected_suffix)
      [] kind.type = "EnglishPhrasalInterposedObject" ->
            english_phrasal_interposed_object(text)
      [] kind.type = "EnglishPhrasalSuffix" ->
            IF english_phrasal_suffix(text, kind.inflected) = None THEN None
            ELSE LET stem_particle == Unwrap(english_phrasal_suffix(text, kind.inflected))
                 IN  Some(stem_particle[1] \o kind.deinflected \o << 32 >>
                              \o stem_particle[2])

(***************************************************************************)
(* LanguageTransformer::from_descriptor: every rule definition becomes a   *)
(* Rule carrying its transform's id, its position in the transform and the *)
(* resolved condition flags.                                               *)
(***************************************************************************)
CompileRule(flags, transform_id, rule_index, rule_def) ==
    [ transform_id   |-> transform_id,
      rule_index     |-> rule_index,
      conditions_in  |-> Unwrap(get_condition_flags_strict(flags, rule_def.conditions_in)),
      conditions_out |-> Unwrap(get_condition_flags_strict(flags, rule_def.conditions_out)),
      kind           |-> rule_def.kind ]

from_descriptor(flags, transform_defs) ==
    [ t \in DOMAIN transform_defs |->
        [ id    |-> transform_defs[t].id,
          rules |-> [ r \in DOMAIN transform_defs[t].rules |->
                        CompileRule(flags, transform_defs[t].id, r - 1,
                                    transform_defs[t].rules[r]) ] ] ]

\* `for transform in &self.transforms { for rule in &transform.rules {` :
\* the rules in the order the two nested loops visit them.
RECURSIVE RulesInOrder(_)
RulesInOrder(transforms) ==
    IF transforms = <<>> THEN <<>>
    ELSE Head(transforms).rules \o RulesInOrder(Tail(transforms))

(***************************************************************************)
(* transform_with_trace: the body of the worklist loop for one item.       *)
(***************************************************************************)
\* mutant of LoopGuardHit: only the newest frame of the trace is compared
LoopGuardHit_NewestFrameOnly(current_trace, rule, text) ==
    /\ current_trace # <<>>
    /\ current_trace[1].transform_id = rule.transform_id
    /\ current_trace[1].rule_index = rule.rule_index
    /\ current_trace[1].text = text

\* the loop guard: this (transform_id, rule_index, text) is in the trace
LoopGuardHit(current_trace, rule, text) ==
    \E f \in DOMAIN current_trace :
        /\ current_trace[f].transform_id = rule.transform_id
        /\ current_trace[f].rule_index = rule.rule_index
        /\ current_trace[f].text = text

RuleFires(current, current_trace, rule) ==
    /\ conditions_match(current.conditions, rule.conditions_in)
    /\ is_inflected(rule.kind, current.text)
    /\ ~LoopGuardHit(current_trace, rule, current.text)
    /\ deinflect(rule.kind, current.text) # None

\* mutant of NewTrace: the new frame is pushed at the back of the trace
NewTrace_PushBack(current, current_trace, rule) ==
    current_trace \o << [ transform_id |-> rule.transform_id,
                          rule_index   |-> rule.rule_index,
                          text         |-> current.text ] >>

NewTrace(current, current_trace, rule) ==
    << [ transform_id |-> rule.transform_id,
         rule_index   |-> rule.rule_index,
         text         |-> current.text ] >> \o current_trace

TraceInfo(new_trace) ==
    [ f \in DOMAIN new_trace |-> [ transform_id |-> new_trace[f].transform_id ] ]

NewResult(current, current_trace, rule) ==
    [ text       |-> Unwrap(deinflect(rule.kind, current.text)),
      conditions |-> rule.conditions_out,
      trace      |-> TraceInfo(NewTrace(current, current_trace, rule)) ]

\* the items one worklist item pushes, as <<result, trace>> pairs in push order
RECURSIVE Pushed(_, _, _)
Pushed(rules, current, current_trace) ==
    IF rules = <<>> THEN <<>>
    ELSE LET rule == Head(rules)
             later == Pushed(Tail(rules), current, current_trace)
         IN  IF RuleFires(current, current_trace, rule)
             THEN << << NewResult(current, current_trace, rule),
                        NewTrace(current, current_trace, rule) >> >> \o later
             ELSE later

\* mutant of SourceItem: the seed item carries every condition flag
SourceItem_AllFlags(text) == [ text |-> text, conditions |-> Bit(0) \cup Bit(1), trace |-> <<>> ]

SourceItem(text) == [ text |-> text, conditions |-> NoFlags, trace |-> <<>> ]

\* transform(): the results without their traces
Transform(res) ==
    [ k \in DOMAIN res |-> [ text |-> res[k].text, conditions |-> res[k].conditions ] ]

\* mutant of DedupTexts: of equal texts the last occurrence is the one kept
RECURSIVE DedupTexts_KeepLast(_, _)
DedupTexts_KeepLast(items, seen) ==
    IF items = <<>> THEN <<>>
    ELSE IF \E k \in DOMAIN Tail(items) : Tail(items)[k].text = Head(items).text
         THEN DedupTexts_KeepLast(Tail(items), seen)
         ELSE <<Head(items).text>> \o DedupTexts_KeepLast(Tail(items), seen)

\* deinflect_terms(): texts of transform() in order, a text kept when
\* `seen.insert` reports it new
RECURSIVE DedupTexts(_, _)
DedupTexts(items, seen) ==
    IF items = <<>> THEN <<>>
    ELSE IF Head(items).text \in seen THEN DedupTexts(Tail(items), seen)
    ELSE <<Head(items).text>> \o DedupTexts(Tail(items), seen \cup {Head(items).text})

deinflect_terms(res) == DedupTexts(Transform(res), {})

(***************************************************************************)
(* Bounds and inputs of the engine specification                           *)
(***************************************************************************)
MaxTextLen == 2      \* longest input text
MaxResults == 12     \* worklist length at which the model stops following a run

Alphabet == {97, 98}   \* 'a', 'b'

RECURSIVE TextsUpTo(_)
TextsUpTo(n) ==
    IF n = 0 THEN { <<>> }
    ELSE LET shorter == TextsUpTo(n - 1)
         IN  shorter \cup { Append(t, c) : t \in { s \in shorter : Len(s) = n - 1 },
                                           c \in Alphabet }

Texts == TextsUpTo(MaxTextLen)

\* condition flag table of the engine's rule sets: two leaf conditions
EngineFlags == [ v |-> Bit(0), n |-> Bit(1) ]

\* (inflected, deinflected) fragments: identity, swap both ways, shrink, grow
FragPairs ==
    { <<<<97>>, <<97>>>>, <<<<97>>, <<98>>>>, <<<<98>>, <<97>>>>,
      <<<<97>>, <<>>>>, <<<<>>, <<97>>>> }

RuleDefs ==
    { [ kind |-> [ type |-> ty, inflected |-> fp[1], deinflected |-> fp[2] ],
        conditions_in |-> ci, conditions_out |-> co ] :
        ty \in {"Suffix", "Prefix", "WholeWord"}, fp \in FragPairs,
        ci \in { <<>>, <<"v">>, <<"n">> }, co \in { <<>>, <<"v">> } }

SecondRuleDefs ==
    { rd \in RuleDefs : /\ rd.kind.type = "Suffix"
                        /\ rd.conditions_in \in { <<>>, <<"v">> }
                        /\ rd.conditions_out = <<"v">> }

\* rule sets: one rule; two rules of one transform; two transforms of one rule
Descriptors ==
    { << [ id |-> "t1", rules |-> <<r1>> ] >> : r1 \in RuleDefs }
    \cup { << [ id |-> "t1", rules |-> <<r1, r2>> ] >> :
             r1 \in RuleDefs, r2 \in SecondRuleDefs }
    \cup { << [ id |-> "t1", rules |-> <<r1>> ], [ id |-> "t2", rules |-> <<r2>> ] >> :
             r1 \in RuleDefs, r2 \in SecondRuleDefs }

(***************************************************************************)
(* Engine specification                                                    *)
(***************************************************************************)
InitEngine ==
    /\ transformer \in { from_descriptor(EngineFlags, d) : d \in Descriptors }
    /\ source_text \in Texts
    /\ results = << SourceItem(source_text) >>
    /\ traces = << <<>> >>
    /\ i = 0
    /\ tpc = "loop"
    /\ terms = <<>>
    /\ FlagsIdle
    /\ SearchIdle
    /\ HangulIdle
    /\ CompileIdle
    /\ ImportIdle
    /\ RulekindIdle
    /\ ManageIdle

\* one iteration of `while i < results.len()`
ProcessItem ==
    /\ tpc = "loop"
    /\ i < Len(results)
    /\ Len(results) <= MaxResults
    /\ LET pushed == Pushed(RulesInOrder(transformer), results[i + 1], traces[i + 1])
       IN  /\ results' = results \o [ k \in DOMAIN pushed |-> pushed[k][1] ]
           /\ traces' = traces \o [ k \in DOMAIN pushed |-> pushed[k][2] ]
    /\ i' = i + 1
    /\ UNCHANGED <<transformer, source_text, tpc, terms, flagVars, searchVars, hangulVars, compileVars, importVars, rulekindVars, manageVars>>

\* the worklist outgrew MaxResults: the run is not followed further
Overflow ==
    /\ tpc = "loop"
    /\ i < Len(results)
    /\ Len(results) > MaxResults
    /\ tpc' = "overflow"
    /\ UNCHANGED <<transformer, source_text, results, traces, i, terms, flagVars, searchVars, hangulVars, compileVars, importVars, rulekindVars, manageVars>>

\* the loop exits and transform_with_trace returns `results`
TransformReturn ==
    /\ tpc = "loop"
    /\ i >= Len(results)
    /\ tpc' = "done"
    /\ UNCHANGED <<transformer, source_text, results, traces, i, terms, flagVars, searchVars, hangulVars, compileVars, importVars, rulekindVars, manageVars>>

\* deinflect_terms on the returned list
DeinflectTerms ==
    /\ tpc = "done"
    /\ terms' = deinflect_terms(results)
    /\ tpc' = "terms"
    /\ UNCHANGED <<transformer, source_text, results, traces, i, flagVars, searchVars, hangulVars, compileVars, importVars, rulekindVars, manageVars>>

NextEngine == ProcessItem \/ Overflow \/ TransformReturn \/ DeinflectTerms

SpecEngine == InitEngine /\ [][NextEngine]_vars

\* the loop of transform_with_trace is sequential code: it always takes its
\* next step
FairSpecEngine == SpecEngine /\ WF_vars(NextEngine)

(***************************************************************************)
(* Claims about the transformation engine                                  *)
(***************************************************************************)

\* C1: whatever the rule set and the text t, the first element of the result
\* of transform_with_trace(t) is (t, conditions 0, empty trace), and the
\* first element of transform(t) is (t, conditions 0).
C1_SourceItemFirst ==
    /\ Len(results) >= 1
    /\ results[1].text = source_text
    /\ results[1].conditions = NoFlags
    /\ results[1].trace = <<>>
    /\ Transform(results)[1] = [ text |-> source_text, conditions |-> NoFlags ]

\* a returned result in which rules fired, one of them giving back the text t
C1_Witness ==
    /\ tpc = "done"
    /\ Len(results) >= 3
    /\ \E k \in 2..Len(results) : results[k].text = source_text
    /\ \E k \in 2..Len(results) : results[k].text # source_text

\* the rule set only has rules that give back a text of the same length:
\* rules whose output equals their input, and rules that undo each other
Rederiving(transforms) ==
    \A r \in DOMAIN RulesInOrder(transforms) :
        Len(RulesInOrder(transforms)[r].kind.inflected)
            = Len(RulesInOrder(transforms)[r].kind.deinflected)

NoRuleTwiceOnSameText ==
    \A k \in DOMAIN traces :
        \A f, g \in DOMAIN traces[k] :
            f # g =>
                ~ ( /\ traces[k][f].transform_id = traces[k][g].transform_id
                    /\ traces[k][f].rule_index = traces[k][g].rule_index
                    /\ traces[k][f].text = traces[k][g].text )

\* C2: with a rule set that can re-derive a text already visited,
\* transform_with_trace terminates (the loop reaches its exit, the worklist
\* never outgrows the bound), and in no item's derivation has one rule
\* (transform_id, rule_index) been applied twice to the same text.
C2_LoopGuardTerminates ==
    /\ [] NoRuleTwiceOnSameText
    /\ [] (Rederiving(transformer) => tpc # "overflow")
    /\ (Rederiving(transformer) => <> (tpc = "done"))

\* a finished run in which the loop guard stopped a rule that matched an item
\* whose text had been re-derived
C2_Witness ==
    /\ tpc = "done"
    /\ Rederiving(transformer)
    /\ \E k \in DOMAIN results :
         \E r \in DOMAIN RulesInOrder(transformer) :
            LET rule == RulesInOrder(transformer)[r]
            IN  /\ conditions_match(results[k].conditions, rule.conditions_in)
                /\ is_inflected(rule.kind, results[k].text)
                /\ LoopGuardHit(traces[k], rule, results[k].text)

RuleAt(transform_id, rule_index) ==
    CHOOSE rule \in { RulesInOrder(transformer)[r] : r \in DOMAIN RulesInOrder(transformer) } :
        rule.transform_id = transform_id /\ rule.rule_index = rule_index

\* C9: every item but the source item has the trace of the item it was
\* derived from with one frame, the fired rule's transform_id, put in front,
\* so one frame per rule applied, and has the fired rule's conditions_out.
C9_TraceNewestFirst ==
    \A k \in 2..Len(results) :
        \E j \in 1..(k - 1) :
            LET rule == RuleAt(traces[k][1].transform_id, traces[k][1].rule_index)
            IN  /\ traces[j] = Tail(traces[k])
                /\ results[j].text = traces[k][1].text
                /\ deinflect(rule.kind, results[j].text) = Some(results[k].text)
                /\ results[k].trace
                     = << [ transform_id |-> rule.transform_id ] >> \o results[j].trace
                /\ Len(results[k].trace) = Len(traces[k])
                /\ results[k].conditions = rule.conditions_out

\* an item derived by two rules of different transforms and conditions_out
C9_Witness ==
    /\ tpc = "done"
    /\ \E k \in DOMAIN results :
        /\ Len(results[k].trace) = 2
        /\ results[k].trace[1].transform_id # results[k].trace[2].transform_id
        /\ results[k].conditions # NoFlags
        /\ \E j \in DOMAIN results :
            /\ traces[j] = Tail(traces[k])
            /\ results[j].conditions # results[k].conditions

FirstIndex(res, text) ==
    CHOOSE k \in DOMAIN res : res[k].text = text /\ \A m \in 1..(k - 1) : res[m].text # text

\* C10: deinflect_terms(t) holds exactly the distinct texts of transform(t),
\* each once, in the order of their first occurrence; its first element is t.
C10_DeinflectTermsFirstSeen ==
    tpc = "terms" =>
        /\ { terms[a] : a \in DOMAIN terms } = { results[k].text : k \in DOMAIN results }
        /\ \A a, b \in DOMAIN terms : a # b => terms[a] # terms[b]
        /\ \A a, b \in DOMAIN terms :
              a < b => FirstIndex(Transform(results), terms[a])
                         < FirstIndex(Transform(results), terms[b])
        /\ terms[1] = source_text

\* a text occurs again after another text: first-seen and last-seen order differ
C10_Witness ==
    /\ tpc = "terms"
    /\ Len(terms) >= 2
    /\ \E k, m, n \in DOMAIN results :
        /\ k < m /\ m < n
        /\ results[k].text = results[n].text
        /\ results[m].text # results[k].text

\* the rule's pattern matches item p and the loop guard lets it pass
Applicable(p, rule) ==
    /\ is_inflected(rule.kind, results[p].text)
    /\ deinflect(rule.kind, results[p].text) # None
    /\ ~LoopGuardHit(traces[p], rule, results[p].text)

\* the worklist holds the item the rule derives from item p
FiredOn(p, rule) ==
    \E k \in DOMAIN traces :
        traces[k] = << [ transform_id |-> rule.transform_id,
                         rule_index   |-> rule.rule_index,
                         text         |-> results[p].text ] >> \o traces[p]

CompiledRules == { RulesInOrder(transformer)[r] : r \in DOMAIN RulesInOrder(transformer) }

\* C14 as stated: a rule whose conditions_in is 0 fires on every item its
\* pattern matches, whatever the item's conditions.
C14_EmptyConditionsInIsWildcard ==
    tpc = "done" =>
        \A p \in DOMAIN results : \A rule \in CompiledRules :
            (rule.conditions_in = NoFlags /\ Applicable(p, rule)) => FiredOn(p, rule)

\* C14 (amended): the wildcard is an item whose conditions are 0: every rule
\* may fire on it, whatever the rule's conditions_in.  On an item with
\* nonzero conditions a rule fires only when its conditions_in shares a bit
\* with them, so a rule whose conditions_in is 0 does not fire on it.
C14_ZeroItemIsWildcard ==
    tpc = "done" =>
        \A p \in DOMAIN results : \A rule \in CompiledRules :
            Applicable(p, rule) =>
                (FiredOn(p, rule) <=>
                    \/ results[p].conditions = NoFlags
                    \/ (results[p].conditions \cap rule.conditions_in) # {})

\* a finished run in which a rule with conditions_in 0 matched the text of an
\* item with nonzero conditions and did not fire, while a rule with nonzero
\* conditions_in fired on the source item
C14_Witness ==
    /\ tpc = "done"
    /\ \E p \in DOMAIN results : \E rule \in CompiledRules :
          /\ results[p].conditions # NoFlags
          /\ rule.conditions_in = NoFlags
          /\ Applicable(p, rule)
          /\ ~FiredOn(p, rule)
    /\ \E rule \in CompiledRules :
          /\ rule.conditions_in # NoFlags
          /\ FiredOn(1, rule)

\* C21: a rule is considered for a worklist item exactly when the item's
\* conditions are 0 or share a bit with the rule's conditions_in.  Every rule
\* whose pattern matches the source text has fired on the source item once
\* it is processed, whatever its conditions_in; on a processed item a rule
\* that the pattern and the loop guard let pass has fired exactly when the
\* conditions are 0 or intersect; and every derived item comes from an item
\* whose conditions were 0 or intersected the conditions_in of its rule.
C21_EligibleExactly ==
    /\ i >= 1 =>
          \A rule \in CompiledRules :
              (is_inflected(rule.kind, source_text)
                  /\ deinflect(rule.kind, source_text) # None) => FiredOn(1, rule)
    /\ \A p \in 1..i : \A rule \in CompiledRules :
          Applicable(p, rule) =>
              (FiredOn(p, rule) <=>
                  \/ results[p].conditions = NoFlags
                  \/ \E bit \in results[p].conditions : bit \in rule.conditions_in)
    /\ \A k \in 2..Len(results) :
          \E p \in 1..(k - 1) :
              /\ results[p].text = traces[k][1].text
              /\ traces[p] = Tail(traces[k])
              /\ \/ results[p].conditions = NoFlags
                 \/ \E bit \in results[p].conditions :
                        bit \in RuleAt(traces[k][1].transform_id,
                                       traces[k][1].rule_index).conditions_in

\* a finished run in which a rule with nonzero conditions_in fired on the
\* source item, and on an item with nonzero conditions one rule fired whose
\* conditions_in shares a bit with them while another rule, which matched
\* the text, did not fire because its nonzero conditions_in shares none
C21_Witness ==
    /\ tpc = "done"
    /\ \E rule \in CompiledRules : rule.conditions_in # NoFlags /\ FiredOn(1, rule)
    /\ \E p \in DOMAIN results : \E hit, miss \in CompiledRules :
          /\ results[p].conditions # NoFlags
          /\ (results[p].conditions \cap hit.conditions_in) # {}
          /\ FiredOn(p, hit)
          /\ miss.conditions_in # NoFlags
          /\ (results[p].conditions \cap miss.conditions_in) = {}
          /\ Applicable(p, miss)
          /\ ~FiredOn(p, miss)

\* the rule set has a rule that matches every text, makes it longer and
\* leaves the conditions at 0: Suffix or Prefix with an empty inflected
\* fragment, a non-empty deinflected one and no conditions
Growing(transforms) ==
    \E r \in DOMAIN RulesInOrder(transforms) :
        LET rule == RulesInOrder(transforms)[r]
        IN  /\ rule.kind.type \in {"Suffix", "Prefix"}
            /\ rule.kind.inflected = <<>>
            /\ rule.kind.deinflected # <<>>
            /\ rule.conditions_in = NoFlags
            /\ rule.conditions_out = NoFlags

\* with such a rule the exit test `i < results.len()` never fails: every
\* item with conditions 0 that is processed pushes a longer one, whose text
\* is in no frame of its trace
GrowingRuleKeepsWorklistOpen ==
    Growing(transformer) =>
        /\ tpc \in {"loop", "overflow"}
        /\ i < Len(results)
        /\ \E k \in (i + 1)..Len(results) :
              /\ results[k].conditions = NoFlags
              /\ \A f \in DOMAIN traces[k] : traces[k][f].text # results[k].text

MaxFlags == 32     \* `if next_flag_index >= 32`

\* Condition names are numbers.  The named conditions may each be a leaf or
\* a composite; the further conditions are leaves no composite names.
NamedConditions == {1, 2, 3}

FurtherLeaves(k) == { Cardinality(NamedConditions) + j : j \in 1..k }

SubConditionLists ==
    { <<>> } \cup { <<a>> : a \in NamedConditions }
             \cup { <<ab[1], ab[2]>> : ab \in { p \in NamedConditions \X NamedConditions : p[1] < p[2] } }

ConditionDefinitions == { None } \cup { Some(l) : l \in SubConditionLists }

\* descriptors: every definition of the named conditions, alone or with
\* MaxFlags - 1 further leaves
ConditionMaps ==
    { [ c \in NamedConditions \cup FurtherLeaves(k) |->
          IF c \in NamedConditions THEN named[c] ELSE None ] :
        named \in [ NamedConditions -> ConditionDefinitions ], k \in {0, MaxFlags - 1} }

\* `conditions.iter()` visits a HashMap in an unspecified order: the named
\* conditions in any order, the further leaves as one run at any place
OrdersOf(S) ==
    { p \in [ 1..Cardinality(S) -> S ] : \A a, b \in 1..Cardinality(S) : a # b => p[a] # p[b] }

IterationOrders(conds) ==
    LET further == (DOMAIN conds) \ NamedConditions
        run == [ j \in 1..Cardinality(further) |-> Cardinality(NamedConditions) + j ]
    IN  { SubSeq(p, 1, at) \o run \o SubSeq(p, at + 1, Len(p)) :
            p \in OrdersOf(NamedConditions), at \in 0..Cardinality(NamedConditions) }

\* mutant of FlagsExhausted: one leaf more is let through
FlagsExhausted_OneLate(index) == index > MaxFlags

\* `if next_flag_index >= 32`
FlagsExhausted(index) == index >= MaxFlags

\* `if next_targets.len() == target_len`
CycleDetected(unresolved, total) == unresolved = total

\* mutant of SubConditionFlags: only the first sub-condition is looked up
SubConditionFlags_FirstOnly(map, sub_conditions) ==
    IF sub_conditions = <<>> THEN Some(NoFlags)
    ELSE IF \E k \in DOMAIN sub_conditions : sub_conditions[k] \notin DOMAIN map THEN None
    ELSE Some(map[Head(sub_conditions)])

\* mutant of SubConditionFlags: a sub-condition without flags counts as 0
RECURSIVE SubConditionFlags_Lenient(_, _)
SubConditionFlags_Lenient(map, sub_conditions) ==
    IF sub_conditions = <<>> THEN Some(NoFlags)
    ELSE Some(BitOr(IF Head(sub_conditions) \in DOMAIN map
                    THEN map[Head(sub_conditions)] ELSE NoFlags,
                    Unwrap(SubConditionFlags_Lenient(map, Tail(sub_conditions)))))

\* `get_condition_flags_strict(&condition_flags_map, sub_conditions)` of a composite
SubConditionFlags(map, sub_conditions) ==
    get_condition_flags_strict(map, sub_conditions)

InitFlags ==
    /\ conditions \in ConditionMaps
    /\ targets \in IterationOrders(conditions)
    /\ rest = <<>>
    /\ next_targets = <<>>
    /\ target_len = 0
    /\ condition_flags_map = <<>>
    /\ next_flag_index = 0
    /\ bpc = "while"
    /\ EngineIdle
    /\ SearchIdle
    /\ HangulIdle
    /\ CompileIdle
    /\ ImportIdle
    /\ RulekindIdle
    /\ ManageIdle

\* `while !targets.is_empty()`: enter a sweep, or return the finished table
WhileTest ==
    /\ bpc = "while"
    /\ IF targets = <<>>
       THEN /\ bpc' = "ok"
            /\ UNCHANGED <<rest, next_targets, target_len>>
       ELSE /\ bpc' = "for"
            /\ target_len' = Len(targets)
            /\ next_targets' = <<>>
            /\ rest' = targets
    /\ UNCHANGED <<conditions, targets, condition_flags_map, next_flag_index, engineVars, searchVars, hangulVars, compileVars, importVars, rulekindVars, manageVars>>

\* one iteration of `for (key, condition) in targets`
ForStep ==
    /\ bpc = "for"
    /\ rest # <<>>
    /\ LET key == Head(rest)
           condition == conditions[key]
       IN  IF condition # None
           THEN \* composite
                IF SubConditionFlags(condition_flags_map, Unwrap(condition)) # None
                THEN /\ condition_flags_map' =
                          (key :> Unwrap(SubConditionFlags(condition_flags_map,
                                                           Unwrap(condition))))
                              @@ condition_flags_map
                     /\ UNCHANGED <<next_targets, next_flag_index, bpc>>
                ELSE /\ next_targets' = Append(next_targets, key)
                     /\ UNCHANGED <<condition_flags_map, next_flag_index, bpc>>
           ELSE \* leaf
                IF FlagsExhausted(next_flag_index)
                THEN /\ bpc' = "err_max"
                     /\ UNCHANGED <<condition_flags_map, next_targets, next_flag_index>>
                ELSE /\ condition_flags_map' = (key :> Bit(next_flag_index)) @@ condition_flags_map
                     /\ next_flag_index' = next_flag_index + 1
                     /\ UNCHANGED <<next_targets, bpc>>
    /\ rest' = Tail(rest)
    /\ UNCHANGED <<conditions, targets, target_len, engineVars, searchVars, hangulVars, compileVars, importVars, rulekindVars, manageVars>>

\* after the sweep: the cycle test, then `targets = next_targets`
ForEnd ==
    /\ bpc = "for"
    /\ rest = <<>>
    /\ IF CycleDetected(Len(next_targets), target_len)
       THEN /\ bpc' = "err_cycle"
            /\ UNCHANGED targets
       ELSE /\ bpc' = "while"
            /\ targets' = next_targets
    /\ UNCHANGED <<conditions, rest, next_targets, target_len, condition_flags_map,
                   next_flag_index, engineVars, searchVars, hangulVars, compileVars, importVars, rulekindVars, manageVars>>

NextFlags == WhileTest \/ ForStep \/ ForEnd

SpecFlags == InitFlags /\ [][NextFlags]_vars

\* build_condition_flags is sequential code: it always takes its next step
FairSpecFlags == SpecFlags /\ WF_vars(NextFlags)

(***************************************************************************)
(* Claims about the condition flag table                                   *)
(***************************************************************************)
SubsOf(c) ==
    IF conditions[c] = None THEN {}
    ELSE { Unwrap(conditions[c])[k] : k \in DOMAIN Unwrap(conditions[c]) }

\* the conditions reachable from c through sub-condition lists
RECURSIVE ReachFrom(_, _)
ReachFrom(frontier, seen) ==
    LET next == UNION { SubsOf(c) : c \in frontier } \ seen
    IN  IF next = {} THEN seen ELSE ReachFrom(next, seen \cup next)

OnCycle(c) == c \in ReachFrom({c}, {})

HasCycle == \E c \in NamedConditions : OnCycle(c)

NumLeaves == Cardinality({ c \in DOMAIN conditions : conditions[c] = None })

BuildReturned == bpc \in {"ok", "err_cycle", "err_max"}

\* C3 as stated: whenever the composite conditions contain a dependency
\* cycle, building the table ends with the cycle error.
C3_CycleErrorAlways ==
    (HasCycle /\ BuildReturned) => bpc = "err_cycle"

\* C3 (amended): whenever the composite conditions contain a dependency
\* cycle, of any length, building the table terminates with an error: the
\* cycle error when at most 32 leaf conditions are declared, the "maximum
\* number of conditions" error when more are.  It never loops forever, never
\* returns a table, and no condition on the cycle is ever given flags.
C3_CycleIsAnError ==
    /\ [] ((HasCycle /\ BuildReturned) =>
              bpc = IF NumLeaves > MaxFlags THEN "err_max" ELSE "err_cycle")
    /\ [] (\A c \in NamedConditions :
              (bpc # "idle" /\ OnCycle(c)) => c \notin DOMAIN condition_flags_map)
    /\ (HasCycle => <> BuildReturned)

\* the build ended with the cycle error on a cycle of three conditions after
\* more than one sweep
C3_Witness ==
    /\ bpc = "err_cycle"
    /\ \A c \in NamedConditions : OnCycle(c) /\ Len(Unwrap(conditions[c])) = 1
    /\ Cardinality(UNION { SubsOf(c) : c \in NamedConditions }) = 3
    /\ NumLeaves = MaxFlags - 1
    /\ next_flag_index = MaxFlags - 1

\* C12 as stated: a table is never built for a descriptor that declares
\* more than 32 condition identifiers, leaves and composites counted together.
C12_IdentifierLimit ==
    bpc = "ok" => Cardinality(DOMAIN conditions) <= MaxFlags

\* the leaf conditions with a flag so far
FlaggedLeaves == { c \in DOMAIN condition_flags_map : conditions[c] = None }

\* C12 (amended): the limit of 32 counts leaf conditions only.  A descriptor
\* with more than 32 leaves always ends in the "maximum number of
\* conditions" error and never in a table; a table that is built gives
\* every leaf a bit of its own among bits 0..31, whatever the number of
\* composites.
C12_LeafLimit ==
    /\ [] (bpc = "ok" => NumLeaves <= MaxFlags)
    /\ [] ((BuildReturned /\ NumLeaves > MaxFlags) => bpc = "err_max")
    /\ [] (bpc # "idle" =>
              /\ \A c \in FlaggedLeaves :
                    \E n \in 0..(MaxFlags - 1) : condition_flags_map[c] = Bit(n)
              /\ \A c, d \in FlaggedLeaves :
                    c # d => condition_flags_map[c] # condition_flags_map[d])
    /\ (NumLeaves > MaxFlags => <> (bpc = "err_max"))

\* a table was built for 32 leaves and two composites: 34 identifiers
C12_Witness ==
    /\ bpc = "ok"
    /\ NumLeaves = MaxFlags
    /\ Cardinality(DOMAIN conditions) = MaxFlags + 2
    /\ DOMAIN condition_flags_map = DOMAIN conditions

\* the leaf conditions a condition names, directly or through composites
LeavesUnder(c) == { l \in ReachFrom({c}, {}) : conditions[l] = None }

\* C22: in every table that is built, each leaf condition has exactly one
\* bit, no two leaves share a bit, and the flags of each composite are the
\* OR of the flags of its sub-conditions, hence of all the leaves it names
\* through them, whatever the order the conditions are swept in.
C22_TableIsOrOfLeaves ==
    bpc = "ok" =>
        /\ DOMAIN condition_flags_map = DOMAIN conditions
        /\ \A c \in DOMAIN conditions :
              IF conditions[c] = None
              THEN /\ Cardinality(condition_flags_map[c]) = 1
                   /\ \A d \in DOMAIN conditions :
                         (d # c /\ conditions[d] = None)
                             => (condition_flags_map[c] \cap condition_flags_map[d]) = {}
              ELSE /\ condition_flags_map[c]
                         = UNION { condition_flags_map[sub] : sub \in SubsOf(c) }
                   /\ condition_flags_map[c]
                         = UNION { condition_flags_map[l] : l \in LeavesUnder(c) }

\* a table was built in which a composite names two leaves and has their
\* two bits
C22_Witness ==
    /\ bpc = "ok"
    /\ \E c \in NamedConditions :
          /\ conditions[c] # None
          /\ Cardinality(SubsOf(c)) = 2
          /\ \A sub \in SubsOf(c) : conditions[sub] = None
          /\ Cardinality(condition_flags_map[c]) = 2

(***************************************************************************)
(* LookupService::search (lookup.rs).                                      *)
(* A &str is a sequence of code points; byte offsets are computed from the *)
(* UTF-8 width of each code point.                                         *)
(***************************************************************************)
\* char::len_utf8
Utf8Len(c) == IF c < 128 THEN 1 ELSE IF c < 2048 THEN 2 ELSE IF c < 65536 THEN 3 ELSE 4

\* str::len (bytes)
RECURSIVE ByteLen(_)
ByteLen(s) == IF s = <<>> THEN 0 ELSE Utf8Len(Head(s)) + ByteLen(Tail(s))

\* str::is_char_boundary
is_char_boundary(s, index) ==
    \E k \in 0..Len(s) : ByteLen(SubSeq(s, 1, k)) = index

\* mutant of SnapDown: the loop walks forward to the next boundary
RECURSIVE SnapDown_Forward(_, _)
SnapDown_Forward(s, index) ==
    IF index > 0 /\ ~is_char_boundary(s, index) THEN SnapDown_Forward(s, index + 1) ELSE index

\* the `while i > 0 && !text.is_char_boundary(i)` loop of snap_to_char_boundary
RECURSIVE SnapDown(_, _)
SnapDown(s, index) ==
    IF index > 0 /\ ~is_char_boundary(s, index) THEN SnapDown(s, index - 1) ELSE index

snap_to_char_boundary(s, index) ==
    IF index >= ByteLen(s) THEN ByteLen(s) ELSE SnapDown(s, index)

\* &text[start_index..] for a start_index on a char boundary
SliceFrom(s, start_index) ==
    LET k == CHOOSE n \in 0..Len(s) : ByteLen(SubSeq(s, 1, n)) = start_index
    IN  SubSeq(s, k + 1, Len(s))

\* Iterator::take
Take(s, n) == SubSeq(s, 1, IF Len(s) < n THEN Len(s) ELSE n)

\* `search_text.chars().take(24)`
WindowChars == 24

IsHangulOrJamo(c) == (c >= 44032 /\ c <= 55215) \/ (c >= 4352 /\ c <= 4607)
IsKana(c) == c >= 12352 /\ c <= 12543
is_ascii_alphabetic(c) == (c >= 65 /\ c <= 90) \/ (c >= 97 /\ c <= 122)
IsLatin(c) == is_ascii_alphabetic(c) \/ (c >= 192 /\ c <= 255)
is_ideograph(c) == c >= 19968 /\ c <= 40959

\* the index of the first char a `for &c in chars` loop returns at, given
\* the set of the indices at which it would return
FirstOf(hits) == CHOOSE k \in hits : \A j \in hits : k <= j

detect_script(cs) ==
    LET first_pass == { k \in 1..Len(cs) : IsHangulOrJamo(cs[k]) \/ IsKana(cs[k]) }
        second_pass == { k \in 1..Len(cs) : IsLatin(cs[k]) \/ is_ideograph(cs[k]) }
    IN  IF first_pass # {}
        THEN IF IsHangulOrJamo(cs[FirstOf(first_pass)]) THEN "Korean" ELSE "Japanese"
        ELSE IF second_pass # {}
             THEN IF IsLatin(cs[FirstOf(second_pass)]) THEN "Latin" ELSE "Chinese"
             ELSE "Other"

\* `.chars().filter(|c| self.is_ideograph(*c))`, as the set of the chars kept
Ideographs(s) == { s[k] : k \in { j \in 1..Len(s) : is_ideograph(s[j]) } }

is_valid_candidate(source, candidate, scr) ==
    IF source = candidate THEN TRUE
    ELSE IF scr \in {"Japanese", "Chinese"}
         THEN IF Ideographs(candidate) # {}
              THEN \E k \in Ideographs(candidate) : k \in Ideographs(source)
              ELSE TRUE
         ELSE TRUE

\* mutant of Candidate: the source length is the candidate word's own length
Candidate_WordLen(word, source_len, reason) ==
    [ word |-> word, source_len |-> Len(word), reason |-> reason ]

\* Candidate { word, source_len, _reason }
Candidate(word, source_len, reason) ==
    [ word |-> word, source_len |-> source_len, reason |-> reason ]

\* ---- English processing (generate_english_candidates) ----

\* char::to_lowercase on the code points the model uses: ASCII A-Z and the
\* Latin-1 capitals (U+00C0..U+00DE except the sign U+00D7) have a one-char
\* lower case 32 above; kana, ideographs, Hangul and digits have no case
LowerChar(c) ==
    IF (c >= 65 /\ c <= 90) \/ (c >= 192 /\ c <= 222 /\ c # 215) THEN c + 32 ELSE c

\* str::to_lowercase
to_lowercase(s) == [ k \in 1..Len(s) |-> LowerChar(s[k]) ]

\* str::eq_ignore_ascii_case
eq_ignore_ascii_case(s, t) ==
    LET Fold(c) == IF c >= 65 /\ c <= 90 THEN c + 32 ELSE c
    IN  /\ Len(s) = Len(t)
        /\ \A k \in 1..Len(s) : Fold(s[k]) = Fold(t[k])

\* `let prefixes = vec![("un", ""), ("re", "")]`
prefixes == << <<<<117, 110>>, <<>>>>, <<<<114, 101>>, <<>>>> >>

\* `let suffixes = vec![...]`: (suffix, replacement, check_doubled_consonant)
suffixes ==
    <<
       <<<<115>>, <<>>, FALSE>>,   \* ("s", "", false)
       <<<<101, 115>>, <<>>, FALSE>>,   \* ("es", "", false)
       <<<<105, 101, 115>>, <<121>>, FALSE>>,   \* ("ies", "y", false)
       <<<<118, 101, 115>>, <<102>>, FALSE>>,   \* ("ves", "f", false)
       <<<<118, 101, 115>>, <<102, 101>>, FALSE>>,   \* ("ves", "fe", false)
       <<<<105, 110, 103>>, <<>>, TRUE>>,   \* ("ing", "", true)
       <<<<105, 110, 103>>, <<101>>, FALSE>>,   \* ("ing", "e", false)
       <<<<101, 100>>, <<>>, TRUE>>,   \* ("ed", "", true)
       <<<<101, 100>>, <<101>>, FALSE>>,   \* ("ed", "e", false)
       <<<<101, 114>>, <<>>, TRUE>>,   \* ("er", "", true)
       <<<<101, 114>>, <<101>>, FALSE>>,   \* ("er", "e", false)
       <<<<101, 115, 116>>, <<>>, TRUE>>,   \* ("est", "", true)
       <<<<101, 115, 116>>, <<101>>, FALSE>>,   \* ("est", "e", false)
       <<<<108, 121>>, <<>>, FALSE>>,   \* ("ly", "", false)
       <<<<97, 98, 108, 101>>, <<>>, TRUE>>,   \* ("able", "", true)
       <<<<97, 98, 108, 101>>, <<101>>, FALSE>> >>   \* ("able", "e", false)

\* `let double_consonants = "bdgklmnprstz"`
double_consonants == {98, 100, 103, 107, 108, 109, 110, 112, 114, 115, 116, 122}

\* the `for (pre, repl) in &prefixes` loop, from table entry k on
RECURSIVE PrefixCandidates(_, _, _)
PrefixCandidates(lower, src_len, k) ==
    IF k > Len(prefixes) THEN <<>>
    ELSE LET pre == prefixes[k][1]
             repl == prefixes[k][2]
             stem == SubSeq(lower, Len(pre) + 1, Len(lower))
         IN  (IF StartsWith(lower, pre)
              THEN << Candidate(repl \o stem, src_len, "En-Prefix") >>
              ELSE <<>>)
             \o PrefixCandidates(lower, src_len, k + 1)

\* `stem.chars().nth(stem.len() - 2)`: the index is a byte count
SecondLast(stem) ==
    LET n == ByteLen(stem) - 2
    IN  IF n < Len(stem) THEN Some(stem[n + 1]) ELSE None

\* one pass of the body of `for (suffix, repl, check_double) in suffixes`:
\* the candidates it pushes, and whether the unwrap of SecondLast panics
SuffixStep(lower, src_len, rule) ==
    LET suffix == rule[1]
        repl == rule[2]
        check_double == rule[3]
        stem == SubSeq(lower, 1, Len(lower) - Len(suffix))
        normal == << Candidate(stem \o repl, src_len, "En-Suffix") >>
    IN  IF ~EndsWith(lower, suffix)
        THEN [ panicked |-> FALSE, candidates |-> <<>> ]
        ELSE IF ~(check_double /\ ByteLen(stem) >= 2)
        THEN [ panicked |-> FALSE, candidates |-> normal ]
        ELSE IF SecondLast(stem) = None
        THEN [ panicked |-> TRUE, candidates |-> normal ]
        ELSE LET last_char == stem[Len(stem)]
                 second_last == Unwrap(SecondLast(stem))
                 reduced_stem == SubSeq(stem, 1, Len(stem) - 1)
             IN  IF last_char = second_last /\ last_char \in double_consonants
                 THEN [ panicked |-> FALSE,
                        candidates |-> normal \o
                            << Candidate(reduced_stem \o repl, src_len, "En-Double") >> ]
                 ELSE [ panicked |-> FALSE, candidates |-> normal ]

RECURSIVE SuffixCandidates(_, _, _)
SuffixCandidates(lower, src_len, k) ==
    IF k > Len(suffixes) THEN [ panicked |-> FALSE, candidates |-> <<>> ]
    ELSE LET step == SuffixStep(lower, src_len, suffixes[k])
             later == SuffixCandidates(lower, src_len, k + 1)
         IN  IF step.panicked THEN step
             ELSE [ panicked |-> later.panicked,
                    candidates |-> step.candidates \o later.candidates ]

generate_english_candidates(s) ==
    LET src_len == Len(s)
        lower == to_lowercase(s)
        lowercase == IF lower # s THEN << Candidate(lower, src_len, "Lowercase") >> ELSE <<>>
        tail == SuffixCandidates(lower, src_len, 1)
    IN  [ panicked |-> tail.panicked,
          candidates |-> lowercase \o PrefixCandidates(lower, src_len, 1) \o tail.candidates ]

\* ---- Korean processing (generate_korean_candidates) ----

\* the arrays of decompose_hangul, and the strings of is_cho, is_jung, is_jong
cho_map ==
    <<12593, 12594, 12596, 12599, 12600, 12601, 12609, 12610, 12611, 12613, 12614, 12615,
    12616, 12617, 12618, 12619, 12620, 12621, 12622>>
jung_map ==
    <<12623, 12624, 12625, 12626, 12627, 12628, 12629, 12630, 12631, 12632, 12633, 12634,
    12635, 12636, 12637, 12638, 12639, 12640, 12641, 12642, 12643>>
\* its first entry is the char '\0'
jong_map ==
    <<0, 12593, 12594, 12595, 12596, 12597, 12598, 12599, 12601, 12602, 12603, 12604, 12605,
    12606, 12607, 12608, 12609, 12610, 12612, 12613, 12614, 12615, 12616, 12618, 12619, 12620,
    12621, 12622>>
\* the arms of combine_jong: (c1, c2, combined)
combine_table ==
    <<<<12593, 12613, 12595>>, <<12596, 12616, 12597>>, <<12596, 12622, 12598>>, <<12601,
    12593, 12602>>, <<12601, 12609, 12603>>, <<12601, 12610, 12604>>, <<12601, 12613, 12605>>,
    <<12601, 12620, 12606>>, <<12601, 12621, 12607>>, <<12601, 12622, 12608>>, <<12610, 12613,
    12612>>>>

\* `let rules = vec![...]`: (suffix, replacement) in compatibility jamo
korean_rules ==
    << <<<<12622, 12623, 12593, 12628>>, <<12622, 12623, 12599, 12623>>>>,
       <<<<12613, 12641, 12610, 12596, 12643, 12599, 12623>>, <<12599, 12623>>>>,
       <<<<12610, 12596, 12643, 12599, 12623>>, <<12599, 12623>>>>,
       <<<<12622, 12624>>, <<12622, 12623, 12599, 12623>>>>,
       <<<<12622, 12624, 12615, 12635>>, <<12622, 12623, 12599, 12623>>>>,
       <<<<12615, 12635>>, <<>>>>,
       <<<<12615, 12635>>, <<12599, 12623>>>>,
       <<<<12593, 12631>>, <<12599, 12623>>>>,
       <<<<12593, 12628>>, <<12599, 12623>>>>,
       <<<<12593, 12643>>, <<12599, 12623>>>>,
       <<<<12616, 12643>>, <<12599, 12623>>>>,
       <<<<12609, 12629>>, <<12599, 12623>>>>,
       <<<<12609, 12629, 12596>>, <<12599, 12623>>>>,
       <<<<12596, 12643>>, <<12599, 12623>>>>,
       <<<<12596, 12623>>, <<12599, 12623>>>>,
       <<<<12596, 12641, 12596>>, <<12599, 12623>>>>,
       <<<<12615, 12641, 12596>>, <<12599, 12623>>>>,
       <<<<12601>>, <<12599, 12623>>>>,
       <<<<12615, 12641, 12601>>, <<12599, 12623>>>>,
       <<<<12599, 12627, 12596>>, <<12599, 12623>>>>,
       <<<<12599, 12631>>, <<>>>>,
       <<<<12609, 12623, 12596>>, <<>>>>,
       <<<<12601, 12641, 12601>>, <<>>>>,
       <<<<12615, 12641, 12601>>, <<>>>>,
       <<<<12593, 12623>>, <<>>>>,
       <<<<12615, 12643>>, <<>>>>,
       <<<<12596, 12641, 12596>>, <<>>>>,
       <<<<12615, 12641, 12596>>, <<>>>>,
       <<<<12614, 12599, 12623>>, <<12599, 12623>>>>,
       <<<<12614, 12615, 12627>>, <<12599, 12623>>>>,
       <<<<12614, 12615, 12627, 12615, 12635>>, <<12599, 12623>>>>,
       <<<<12615, 12623, 12614>>, <<12599, 12623>>>>,
       <<<<12615, 12627, 12614>>, <<12599, 12623>>>>,
       <<<<12616, 12635>>, <<12599, 12623>>>>,
       <<<<12616, 12635>>, <<>>>>,
       <<<<12613, 12627>>, <<12599, 12623>>>> >>

\* `.chars().position(|x| x == c)` over a table, counted from 0, as an Option
Position(table, c) ==
    IF \E k \in 1..Len(table) : table[k] = c
    THEN Some((CHOOSE k \in 1..Len(table) : table[k] = c) - 1)
    ELSE None

is_cho(c) == Position(cho_map, c) # None
is_jung(c) == Position(jung_map, c) # None
is_jong(c) == Position(Tail(jong_map), c) # None

get_cho_idx(c) == IF is_cho(c) THEN Unwrap(Position(cho_map, c)) ELSE 0
get_jung_idx(c) == IF is_jung(c) THEN Unwrap(Position(jung_map, c)) ELSE 0
\* mutant of get_jong_idx: the position is not moved past the empty entry
get_jong_idx_FromZero(c) == IF is_jong(c) THEN Unwrap(Position(Tail(jong_map), c)) ELSE 0

get_jong_idx(c) == IF is_jong(c) THEN Unwrap(Position(Tail(jong_map), c)) + 1 ELSE 0

combine_jong(c1, c2) ==
    IF \E k \in 1..Len(combine_table) : combine_table[k][1] = c1 /\ combine_table[k][2] = c2
    THEN Some(combine_table[CHOOSE k \in 1..Len(combine_table) :
                  combine_table[k][1] = c1 /\ combine_table[k][2] = c2][3])
    ELSE None

\* the body of `for c in text.chars()` of decompose_hangul
DecomposeChar(c) ==
    IF c >= 44032 /\ c <= 55203
    THEN LET idx == c - 44032
             jong == idx % 28
             jung == (idx \div 28) % 21
             cho == (idx \div 28) \div 21
         IN  << cho_map[cho + 1], jung_map[jung + 1] >>
             \o (IF jong > 0 THEN << jong_map[jong + 1] >> ELSE <<>>)
    ELSE << c >>

RECURSIVE decompose_hangul(_)
decompose_hangul(s) ==
    IF s = <<>> THEN <<>> ELSE DecomposeChar(Head(s)) \o decompose_hangul(Tail(s))

\* mutant of is_next_vowel: the jamo after a consonant is never looked at
is_next_vowel_Never(cs, at) == FALSE

\* `if i + 3 < chars.len() { self.is_jung(chars[i + 3]) } else { false }`,
\* for the jamo at index at (counted from 0, as in the code)
is_next_vowel(cs, at) == at < Len(cs) /\ is_jung(cs[at + 1])

\* one pass of the `while i < chars.len()` loop of compose_hangul at index
\* at: the character pushed, the jamo consumed and the trailing consonant index
ComposeStep(cs, at) ==
    LET c1 == cs[at + 1]
    IN  IF is_cho(c1) /\ at + 1 < Len(cs) /\ is_jung(cs[at + 2])
        THEN LET cho_idx == get_cho_idx(c1)
                 jung_idx == get_jung_idx(cs[at + 2])
                 takes_jong ==
                     /\ at + 2 < Len(cs)
                     /\ is_jong(cs[at + 3])
                     /\ ~is_next_vowel(cs, at + 3)
                 complex_jong ==
                     IF takes_jong /\ at + 3 < Len(cs)
                     THEN combine_jong(cs[at + 3], cs[at + 4])
                     ELSE None
                 takes_complex ==
                     /\ complex_jong # None
                     /\ ~is_next_vowel(cs, at + 4)
                 jong_idx ==
                     IF ~takes_jong THEN 0
                     ELSE IF takes_complex THEN get_jong_idx(Unwrap(complex_jong))
                     ELSE get_jong_idx(cs[at + 3])
                 consumed == IF ~takes_jong THEN 2 ELSE IF takes_complex THEN 4 ELSE 3
                 u == 44032 + (cho_idx * 21 * 28) + (jung_idx * 28) + jong_idx
             IN  [ at |-> at, pushed |-> u, consumed |-> consumed, jong_idx |-> jong_idx ]
        ELSE [ at |-> at, pushed |-> c1, consumed |-> 1, jong_idx |-> 0 ]

\* the passes of the loop from index at on, in order
RECURSIVE ComposeSteps(_, _)
ComposeSteps(cs, at) ==
    IF at >= Len(cs) THEN <<>>
    ELSE << ComposeStep(cs, at) >> \o ComposeSteps(cs, at + ComposeStep(cs, at).consumed)

\* the `while i < chars.len()` loop of compose_hangul from index at on: the
\* characters pushed to `result`
ComposeFrom(cs, at) ==
    [ k \in DOMAIN ComposeSteps(cs, at) |-> ComposeSteps(cs, at)[k].pushed ]

compose_hangul(jamo) == ComposeFrom(jamo, 0)

\* the `for (suffix, repl) in rules` loop, from table entry k on
RECURSIVE KoreanCandidates(_, _, _, _)
KoreanCandidates(s, src_len, jamo, k) ==
    IF k > Len(korean_rules) THEN <<>>
    ELSE LET suffix == korean_rules[k][1]
             repl == korean_rules[k][2]
             stem == Take(jamo, Len(jamo) - Len(suffix))
             recomposed == compose_hangul(stem \o repl)
         IN  (IF EndsWith(jamo, suffix) /\ recomposed # s /\ recomposed # <<>>
              THEN << Candidate(recomposed, src_len, "Ko-Deinflect") >>
              ELSE <<>>)
             \o KoreanCandidates(s, src_len, jamo, k + 1)

generate_korean_candidates(s) == KoreanCandidates(s, Len(s), decompose_hangul(s), 1)

\* ---- candidates of one substring (generate_candidates) ----

\* the Japanese arm: tokens is what `self.tokenizer.tokenize(text)` gave, None
\* for an Err, an empty token list or a first token with fewer than 8 details,
\* else Some([surface, lemma]) of the first token
LinderaCandidates(s, tokens) ==
    IF tokens = None THEN <<>>
    ELSE LET first_token == Unwrap(tokens)
         IN  IF first_token.lemma # << 42 >> /\ first_token.lemma # s
             THEN << Candidate(first_token.lemma, Len(first_token.surface), "Lindera") >>
             ELSE <<>>

generate_candidates(s, scr, tokens) ==
    LET original == << Candidate(s, Len(s), "Original") >>
        english == generate_english_candidates(s)
    IN  CASE scr = "Japanese" ->
                [ panicked |-> FALSE, candidates |-> original \o LinderaCandidates(s, tokens) ]
          [] scr = "Korean" ->
                [ panicked |-> FALSE, candidates |-> original \o generate_korean_candidates(s) ]
          [] scr = "Latin" ->
                [ panicked |-> english.panicked, candidates |-> original \o english.candidates ]
          [] OTHER ->
                [ panicked |-> FALSE, candidates |-> original ]

\* ---- the store query and the result pushed for a row ----

\* mutant of CollectConfigs: the snapshot takes every dictionary as enabled
CollectConfigs_AllEnabled(dicts, order) ==
    [ k \in { order[j] : j \in DOMAIN order } |->
        [ enabled |-> TRUE, priority |-> dicts[k].priority ] ]

\* `dicts.iter().map(|(id, d)| (*id, (d.enabled, d.priority))).collect()`:
\* the entries are inserted in the order the HashMap iterator yields them
RECURSIVE CollectConfigs(_, _)
CollectConfigs(dicts, order) ==
    IF order = <<>> THEN <<>>
    ELSE LET before == CollectConfigs(dicts, SubSeq(order, 1, Len(order) - 1))
             id == order[Len(order)]
         IN  [ k \in (DOMAIN before) \cup {id} |->
                 IF k = id
                 THEN [ enabled |-> dicts[id].enabled, priority |-> dicts[id].priority ]
                 ELSE before[k] ]

\* results.push((RecordEntry { .. }, ..)); row, substring_len and reason are
\* not fields of RecordEntry: they record where the entry came from
Entry(candidate, stored, row, substring) ==
    [ term |-> candidate.word,
      span_bytes_end |-> ByteLen(candidate.word),
      span_chars_end |-> candidate.source_len,
      source |-> stored.dictionary_id,
      freq |-> IF stored.glossary THEN stored.popularity ELSE 0,
      row |-> row,
      substring_len |-> Len(substring),
      reason |-> candidate.reason ]

\* mutant of RowEntries: the loop over the rows ends at the first row of an
\* enabled dictionary that cannot be decoded
RECURSIVE RowEntries_StopAtCorrupt(_, _, _, _, _)
RowEntries_StopAtCorrupt(candidate, substring, configs, table, r) ==
    IF r > Len(table) THEN <<>>
    ELSE LET dict_id == table[r].dictionary_id
             disabled == dict_id \in DOMAIN configs /\ ~configs[dict_id].enabled
         IN  IF table[r].term # candidate.word \/ disabled
             THEN RowEntries_StopAtCorrupt(candidate, substring, configs, table, r + 1)
             ELSE IF table[r].json = None THEN <<>>
             ELSE << Entry(candidate, Unwrap(table[r].json), r, substring) >>
                  \o RowEntries_StopAtCorrupt(candidate, substring, configs, table, r + 1)

\* the `for row_result in mapped_rows` loop from row r of the table on; the
\* statement selects the rows whose term is the candidate word, which an
\* unchanged table yields in the same (here: rowid) order every time; a row
\* whose blob does not decompress or parse has json = None
RECURSIVE RowEntries(_, _, _, _, _)
RowEntries(candidate, substring, configs, table, r) ==
    IF r > Len(table) THEN <<>>
    ELSE LET dict_id == table[r].dictionary_id
             skipped ==
                 \/ table[r].term # candidate.word
                 \/ (dict_id \in DOMAIN configs /\ ~configs[dict_id].enabled)
                 \/ table[r].json = None
         IN  (IF skipped THEN <<>>
              ELSE << Entry(candidate, Unwrap(table[r].json), r, substring) >>)
             \o RowEntries(candidate, substring, configs, table, r + 1)

\* mutant of ProcessCandidates: processed_candidates is filled but not asked
RECURSIVE ProcessCandidates_SeenSetIgnored(_, _, _, _, _, _)
ProcessCandidates_SeenSetIgnored(candidates, substring, scr, configs, table, acc) ==
    IF candidates = <<>> THEN acc
    ELSE LET candidate == Head(candidates)
         IN  IF ~is_valid_candidate(substring, candidate.word, scr)
             THEN ProcessCandidates_SeenSetIgnored(Tail(candidates), substring, scr,
                      configs, table, acc)
             ELSE ProcessCandidates_SeenSetIgnored(Tail(candidates), substring, scr,
                      configs, table,
                      [ processed |-> acc.processed \cup {candidate.word},
                        queries |-> Append(acc.queries,
                                        [ substring |-> substring, word |-> candidate.word ]),
                        entries |-> acc.entries \o
                                        RowEntries(candidate, substring, configs, table, 1) ])

\* the `for candidate in candidates` loop; acc holds processed_candidates,
\* the queries made and the results vector
RECURSIVE ProcessCandidates(_, _, _, _, _, _)
ProcessCandidates(candidates, substring, scr, configs, table, acc) ==
    IF candidates = <<>> THEN acc
    ELSE LET candidate == Head(candidates)
         IN  IF \/ ~is_valid_candidate(substring, candidate.word, scr)
                \/ candidate.word \in acc.processed
             THEN ProcessCandidates(Tail(candidates), substring, scr, configs, table, acc)
             ELSE ProcessCandidates(Tail(candidates), substring, scr, configs, table,
                      [ processed |-> acc.processed \cup {candidate.word},
                        queries |-> Append(acc.queries,
                                        [ substring |-> substring, word |-> candidate.word ]),
                        entries |-> acc.entries \o
                                        RowEntries(candidate, substring, configs, table, 1) ])

\* ---- ranking (the comparator of results.sort_by) ----

\* Ord::cmp: -1 Less, 0 Equal, 1 Greater
Cmp(x, y) == IF x < y THEN -1 ELSE IF x > y THEN 1 ELSE 0

\* mutant of PriorityOf: a dictionary without configuration gets priority 0
PriorityOf_UnknownFirst(configs, source) ==
    IF source \in DOMAIN configs THEN configs[source].priority ELSE 0

\* `dict_configs.get(&a.0.source).map(|(_, p)| *p).unwrap_or(999)`
PriorityOf(configs, source) ==
    IF source \in DOMAIN configs THEN configs[source].priority ELSE 999

compare(configs, a, b) ==
    LET len_cmp == Cmp(b.span_chars_end, a.span_chars_end)
        prio_cmp == Cmp(PriorityOf(configs, a.source), PriorityOf(configs, b.source))
    IN  IF len_cmp # 0 THEN len_cmp
        ELSE IF prio_cmp # 0 THEN prio_cmp
        ELSE Cmp(b.freq, a.freq)

\* mutant of InsertSorted: an element goes in front of the elements it
\* compares Equal to, as an unstable sort may place it
InsertSorted_TiesFirst(configs, sorted, x) ==
    LET p == Cardinality({ k \in 1..Len(sorted) : compare(configs, sorted[k], x) < 0 })
    IN  SubSeq(sorted, 1, p) \o << x >> \o SubSeq(sorted, p + 1, Len(sorted))

\* slice::sort_by is stable: an element goes behind the elements that do not
\* compare Greater than it
InsertSorted(configs, sorted, x) ==
    LET p == Cardinality({ k \in 1..Len(sorted) : compare(configs, sorted[k], x) <= 0 })
    IN  SubSeq(sorted, 1, p) \o << x >> \o SubSeq(sorted, p + 1, Len(sorted))

RECURSIVE sort_by(_, _)
sort_by(configs, v) ==
    IF v = <<>> THEN <<>>
    ELSE InsertSorted(configs, sort_by(configs, SubSeq(v, 1, Len(v) - 1)), v[Len(v)])

\* ---- inputs of the search specification ----

\* query texts: one or more per script
Text_Unis == << 85, 110, 105, 115 >>          \* "Unis"   (Latin)
Text_Etes == << 201, 116, 233, 115 >>         \* "Étés"   (Latin, two-byte chars)
Text_Eeed == << 233, 233, 101, 100 >>         \* "ééed"   (Latin, two-byte chars before "ed")
Text_I == << 73 >>                            \* "I"      (Latin, one char)
Text_Digits == << 49, 50 >>                   \* "12"     (Other)
Text_Mitsuke == << 35211, 12388, 12369 >>     \* "見つけ" (Japanese)
Text_Tabe == << 12383, 12409 >>               \* "たべ"   (Japanese, kana only)
Text_Zhongwen == << 20013, 25991 >>           \* "中文"   (Chinese)
Text_Gayo == << 44032, 50836 >>               \* "가요"   (Korean)

SearchTexts ==
    { Text_Unis, Text_Etes, Text_Eeed, Text_I, Text_Digits, Text_Mitsuke, Text_Tabe,
      Text_Zhongwen, Text_Gayo }

\* lemmas Lindera may report
Lemma_Mitsukeru == << 35211, 20184, 12369, 12427 >>   \* "見付ける"
Lemma_Tsuku == << 20184, 12367 >>                     \* "付く"
Lemma_Miru == << 12415, 12427 >>                      \* "みる"
Lemma_Taberu == << 39135, 12409, 12427 >>             \* "食べる"

LemmaPool(s) ==
    IF Head(s) = 35211 THEN { Lemma_Mitsukeru, Lemma_Tsuku } ELSE { Lemma_Miru, Lemma_Taberu }

\* what Lindera may answer for the text s: a failure, or a first token that
\* is the first char or the whole of s, with lemma "*", s itself or a pool lemma
TokenizeOutcomes(s) ==
    { None, Some([ surface |-> s, lemma |-> << 42 >> ]), Some([ surface |-> s, lemma |-> s ]) }
    \cup { Some([ surface |-> SubSeq(s, 1, n), lemma |-> l ]) :
             n \in {1, Len(s)}, l \in LemmaPool(s) }

\* the window search takes from the text at the cursor
WindowOf(s, offset) ==
    LET start_index == snap_to_char_boundary(s, offset)
    IN  IF start_index >= ByteLen(s) THEN <<>>
        ELSE Take(SliceFrom(s, start_index), WindowChars)

RECURSIVE TokenizerChoices(_, _)
TokenizerChoices(window, n) ==
    IF n = 0 THEN { <<>> }
    ELSE { Append(t, o) : t \in TokenizerChoices(window, n - 1),
                          o \in TokenizeOutcomes(SubSeq(window, 1, n)) }

\* the tokenizer is a function of the text it is given; only the texts search
\* can hand it (the prefixes of the window, when the script is Japanese) matter
Tokenizers(s, offset) ==
    LET window == WindowOf(s, offset)
        given == { SubSeq(window, 1, n) : n \in 1..Len(window) }
    IN  IF detect_script(window) = "Japanese"
        THEN { [ p \in given |-> t[Len(p)] ] : t \in TokenizerChoices(window, Len(window)) }
        ELSE { [ p \in given |-> None ] }

\* state.dictionaries: dictionaries 1 and 2 are configured, rows of dictionary
\* 3 have no configuration
DictionaryConfigs ==
    { [ d \in {1, 2} |-> [ enabled |-> e[d], priority |-> p[d] ] ] :
        e \in { << TRUE, TRUE >>, << FALSE, TRUE >> },
        p \in { << 0, 1 >>, << 1, 0 >>, << 1, 1 >> } }

\* a row of the terms table; import.rs writes the dictionary id to the column
\* and into the stored record alike
Row(term, dict_id, popularity) ==
    [ term |-> term, dictionary_id |-> dict_id,
      json |-> Some([ dictionary_id |-> dict_id, popularity |-> popularity,
                      glossary |-> TRUE ]) ]

\* the terms table for three popularity values
Table(x, y, z) ==
    << Row(<< 117, 110, 105 >>, 2, x),                 \* "uni"
       Row(<< 117, 110, 105, 115 >>, 1, y),            \* "unis"
       Row(<< 105, 115 >>, 1, z),                      \* "is"
       Row(<< 117, 110, 105 >>, 1, y),                 \* "uni"
       Row(<< 105, 115 >>, 3, x),                      \* "is"
       Row(<< 117, 110 >>, 2, z),                      \* "un"
       Row(<< 105 >>, 1, x),                           \* "i"
       [ term |-> << 117, 110, 105 >>, dictionary_id |-> 1, json |-> None ],
       [ term |-> << 117, 110, 105, 115 >>, dictionary_id |-> 2,
         json |-> Some([ dictionary_id |-> 2, popularity |-> 7, glossary |-> FALSE ]) ],
       Row(<< 233, 116, 233, 115 >>, 1, x),            \* "étés"
       Row(<< 233, 116, 233 >>, 2, y),                 \* "été"
       Row(<< 49, 50 >>, 1, x),                        \* "12"
       Row(Lemma_Mitsukeru, 1, x),
       Row(Lemma_Mitsukeru, 2, y),
       Row(<< 35211, 12388 >>, 1, z),                  \* "見つ"
       Row(<< 35211 >>, 3, x),                         \* "見"
       Row(Lemma_Tsuku, 1, y),
       Row(Lemma_Miru, 2, x),
       Row(Lemma_Taberu, 1, y),
       Row(Text_Tabe, 2, z),
       Row(Text_Zhongwen, 1, x),
       Row(<< 20013 >>, 2, y),                         \* "中"
       Row(<< 20013 >>, 3, z),
       Row(<< 44032, 45796 >>, 1, x),                  \* "가다"
       Row(<< 44032 >>, 2, y),                         \* "가"
       Row(Text_Gayo, 3, z),
       Row(<< 117, 110, 105 >>, 3, z) >>               \* "uni", after the unreadable row

Stores == { Table(5, 9, 0), Table(9, 5, 5), Table(5, 5, 5) }

\* ---- the steps of search ----

inputVars == <<query_text, cursor_offset, dictionaries, terms_table, tokenizer>>

\* the locals of a call before its first step
FreshCall ==
    /\ dict_configs = <<>>
    /\ chars = <<>>
    /\ script = "Other"
    /\ len = 0
    /\ processed_candidates = {}
    /\ submitted = <<>>
    /\ found = <<>>
    /\ spc = "start"

InitSearch ==
    /\ query_text \in SearchTexts
    /\ cursor_offset \in 0..(ByteLen(query_text) + 1)
    /\ dictionaries \in DictionaryConfigs
    /\ terms_table \in Stores
    /\ tokenizer \in Tokenizers(query_text, cursor_offset)
    /\ call = 1
    /\ returned = [ c \in 1..2 |-> None ]
    /\ FreshCall
    /\ EngineIdle
    /\ FlagsIdle
    /\ HangulIdle
    /\ CompileIdle
    /\ ImportIdle
    /\ RulekindIdle
    /\ ManageIdle

\* from the entry of search to the head of the `for len` loop: the snapshot
\* of the dictionary configuration, the cursor snap, the window, the script.
\* The pool hands out a connection and the statement prepares (otherwise
\* search returns the empty list at once).
SearchStart ==
    /\ spc = "start"
    /\ \E order \in OrdersOf(DOMAIN dictionaries) :
           dict_configs' = CollectConfigs(dictionaries, order)
    /\ LET start_index == snap_to_char_boundary(query_text, cursor_offset)
           window == Take(SliceFrom(query_text, start_index), WindowChars)
       IN  IF start_index >= ByteLen(query_text)
           THEN /\ returned' = [ returned EXCEPT ![call] = Some(<<>>) ]
                /\ spc' = "returned"
                /\ UNCHANGED <<chars, script, len>>
           ELSE /\ chars' = window
                /\ script' = detect_script(window)
                /\ len' = Len(window)
                /\ spc' = "loop"
                /\ UNCHANGED returned
    /\ UNCHANGED <<inputVars, call, processed_candidates, submitted, found,
                   engineVars, flagVars, hangulVars, compileVars, importVars, rulekindVars, manageVars>>

\* one iteration of `for len in (1..=chars.len()).rev()`
SearchLen ==
    /\ spc = "loop"
    /\ len >= 1
    /\ LET substring == SubSeq(chars, 1, len)
           skip == /\ script = "Latin"
                   /\ len < 2
                   /\ ~eq_ignore_ascii_case(substring, << 97 >>)
                   /\ ~eq_ignore_ascii_case(substring, << 105 >>)
           generated == generate_candidates(substring, script, tokenizer[substring])
           acc == ProcessCandidates(generated.candidates, substring, script, dict_configs,
                      terms_table,
                      [ processed |-> processed_candidates, queries |-> submitted,
                        entries |-> found ])
       IN  IF skip
           THEN UNCHANGED <<processed_candidates, submitted, found, spc>>
           ELSE IF generated.panicked
           THEN /\ spc' = "panicked"
                /\ UNCHANGED <<processed_candidates, submitted, found>>
           ELSE /\ processed_candidates' = acc.processed
                /\ submitted' = acc.queries
                /\ found' = acc.entries
                /\ UNCHANGED spc
    /\ len' = len - 1
    /\ UNCHANGED <<inputVars, call, dict_configs, chars, script, returned,
                   engineVars, flagVars, hangulVars, compileVars, importVars, rulekindVars, manageVars>>

\* mutant of SearchSort: the comparator reads the priorities from
\* state.dictionaries as it is when the list is sorted
SearchSort_LivePriorities ==
    /\ spc = "loop"
    /\ len = 0
    /\ returned' = [ returned EXCEPT ![call] = Some(sort_by(dictionaries, found)) ]
    /\ spc' = "returned"
    /\ UNCHANGED <<inputVars, call, dict_configs, chars, script, len,
                   processed_candidates, submitted, found, engineVars, flagVars, hangulVars, compileVars, importVars, rulekindVars, manageVars>>

\* the loop is over: results.sort_by(..) and the return
SearchSort ==
    /\ spc = "loop"
    /\ len = 0
    /\ returned' = [ returned EXCEPT ![call] = Some(sort_by(dict_configs, found)) ]
    /\ spc' = "returned"
    /\ UNCHANGED <<inputVars, call, dict_configs, chars, script, len,
                   processed_candidates, submitted, found, engineVars, flagVars, hangulVars, compileVars, importVars, rulekindVars, manageVars>>

\* search is called again with the same arguments, the store and the
\* dictionary configuration unchanged
SearchAgain ==
    /\ spc \in {"returned", "panicked"}
    /\ call = 1
    /\ call' = 2
    /\ dict_configs' = <<>>
    /\ chars' = <<>>
    /\ script' = "Other"
    /\ len' = 0
    /\ processed_candidates' = {}
    /\ submitted' = <<>>
    /\ found' = <<>>
    /\ spc' = "start"
    /\ UNCHANGED <<inputVars, returned, engineVars, flagVars, hangulVars, compileVars, importVars, rulekindVars, manageVars>>

NextSearch == SearchStart \/ SearchLen \/ SearchSort \/ SearchAgain

SpecSearch == InitSearch /\ [][NextSearch]_vars

(***************************************************************************)
(* Properties of search                                                    *)
(***************************************************************************)
\* the calls that have returned, and what a call returned
ReturnedCalls == { c \in DOMAIN returned : returned[c] # None }
Output(c) == Unwrap(returned[c])

\* the substring an entry's candidate was generated from
SubstringOf(e) == SubSeq(chars, 1, e.substring_len)

\* C4: the list search returns is ordered by match length descending, then
\* dictionary priority ascending with 999 for a dictionary that has no
\* configuration, then frequency descending: of two results the earlier one
\* never has the worse key.  The list holds exactly the results found.
C4_RankedByLengthPriorityFrequency ==
    \A c \in ReturnedCalls :
        LET out == Output(c)
            Prio(e) == IF e.source \in DOMAIN dictionaries
                       THEN dictionaries[e.source].priority ELSE 999
            NotWorse(a, b) ==
                \/ a.span_chars_end > b.span_chars_end
                \/ /\ a.span_chars_end = b.span_chars_end
                   /\ \/ Prio(a) < Prio(b)
                      \/ Prio(a) = Prio(b) /\ a.freq >= b.freq
        IN  /\ \A x, y \in 1..Len(out) : x < y => NotWorse(out[x], out[y])
            /\ c = call =>
                 /\ Len(out) = Len(found)
                 /\ { out[x] : x \in 1..Len(out) } = { found[x] : x \in 1..Len(found) }

\* a returned list that the sort reordered, with an entry of the unconfigured
\* dictionary behind a configured one of the same length, and two entries
\* that differ in frequency only
C4_Witness ==
    /\ call \in ReturnedCalls
    /\ Output(call) # found
    /\ \E x, y \in 1..Len(Output(call)) :
          /\ x < y
          /\ Output(call)[x].span_chars_end = Output(call)[y].span_chars_end
          /\ Output(call)[x].source \in DOMAIN dictionaries
          /\ Output(call)[y].source \notin DOMAIN dictionaries
    /\ \E x, y \in 1..Len(Output(call)) :
          /\ x < y
          /\ Output(call)[x].span_chars_end = Output(call)[y].span_chars_end
          /\ Output(call)[x].source = Output(call)[y].source
          /\ Output(call)[x].freq > Output(call)[y].freq

\* C5: for Japanese and Chinese script every ideograph of the word of every
\* result occurs in the substring the word's candidate was generated from.
C5_NoAbsentIdeograph ==
    script \in {"Japanese", "Chinese"} =>
        \A x \in 1..Len(found) :
            Ideographs(found[x].term) \subseteq Ideographs(SubstringOf(found[x]))

\* position of an entry in the results vector before the sort
FoundAt(e) == CHOOSE x \in 1..Len(found) : found[x] = e

RECURSIVE Worklist(_, _, _, _)
Worklist(transforms, res, trs, at) ==
    IF at >= Len(res) THEN res
    ELSE LET pushed == Pushed(RulesInOrder(transforms), res[at + 1], trs[at + 1])
         IN  Worklist(transforms,
                      res \o [ k \in DOMAIN pushed |-> pushed[k][1] ],
                      trs \o [ k \in DOMAIN pushed |-> pushed[k][2] ],
                      at + 1)

\* LanguageTransformer::empty(): no transforms
LanguageTransformer_empty == <<>>

\* Deinflector::deinflect for a language other than Korean
Deinflector_deinflect(transforms, s) ==
    deinflect_terms(Worklist(transforms, << SourceItem(s) >>, << <<>> >>, 0))

\* C7: every word search submits to the store for a substring is a surface
\* form the transformation engine yields for the substring or its lower-case
\* variant -- here for a language whose transformer has no rules.
C7_CandidatesAreEngineForms ==
    \A x \in 1..Len(submitted) :
        \E v \in { submitted[x].substring, to_lowercase(submitted[x].substring) } :
            LET forms == Deinflector_deinflect(LanguageTransformer_empty, v)
            IN  \E k \in 1..Len(forms) : forms[k] = submitted[x].word

\* C8 as stated: the reported character span of every result is the length
\* of the substring its candidate was generated from.
C8_SpanIsSubstringLength ==
    \A x \in 1..Len(found) : found[x].span_chars_end = found[x].substring_len

\* C8: the reported character span of a result is the length of the
\* substring its candidate was generated from, except for a candidate that
\* is Lindera's lemma: there it is the length of the first token Lindera
\* found in that substring.  The returned list reports the same spans.
C8_SpanIsSourceLength ==
    /\ \A x \in 1..Len(found) :
          IF found[x].reason = "Lindera"
          THEN found[x].span_chars_end
                   = Len(Unwrap(tokenizer[SubstringOf(found[x])]).surface)
          ELSE found[x].span_chars_end = found[x].substring_len
    /\ call \in ReturnedCalls =>
          \A x \in 1..Len(Output(call)) :
              Output(call)[x].span_chars_end = found[FoundAt(Output(call)[x])].span_chars_end

\* a result of a Lindera lemma whose first token is shorter than the
\* substring, next to a result whose span is the whole substring
C8_Witness ==
    /\ \E x \in 1..Len(found) :
          /\ found[x].reason = "Lindera"
          /\ found[x].span_chars_end < found[x].substring_len
    /\ \E x \in 1..Len(found) :
          /\ found[x].reason = "Original"
          /\ found[x].span_chars_end = found[x].substring_len

(***************************************************************************)
(* decompose_hangul followed by compose_hangul on strings of precomposed   *)
(* syllable blocks                                                         *)
(***************************************************************************)
\* the syllable block of a lead consonant, a vowel and a trailing consonant
\* index (0 for none)
Syllable(cho, jung, jong) == 44032 + (cho * 21 * 28) + (jung * 28) + jong

\* every precomposed syllable block, U+AC00..U+D7A3
AllSyllables == 44032..55203

\* syllables that longer strings are built from: lead consonants that are
\* (ㄱ ㅅ ㅎ) and are not (ㄸ) trailing consonants as well, two vowels, and
\* no (0), single (ㄱ ㄹ ㅂ) and cluster (ㄳ ㅄ) trailing consonants
SomeSyllables ==
    { Syllable(cho, jung, jong) :
        cho \in {0, 4, 9, 18}, jung \in {0, 20}, jong \in {0, 1, 3, 8, 17, 18} }

MaxSyllables == 2     \* longest string built from SomeSyllables

RECURSIVE SyllableStrings(_)
SyllableStrings(n) ==
    IF n = 0 THEN { <<>> }
    ELSE SyllableStrings(n - 1)
         \cup { Append(s, c) : s \in { t \in SyllableStrings(n - 1) : Len(t) = n - 1 },
                               c \in SomeSyllables }

InitHangul ==
    /\ hangul_text \in { << c >> : c \in AllSyllables } \cup SyllableStrings(MaxSyllables)
    /\ hangul_jamo = <<>>
    /\ hangul_out = <<>>
    /\ hpc = "start"
    /\ EngineIdle
    /\ FlagsIdle
    /\ SearchIdle
    /\ CompileIdle
    /\ ImportIdle
    /\ RulekindIdle
    /\ ManageIdle

HangulDecompose ==
    /\ hpc = "start"
    /\ hangul_jamo' = decompose_hangul(hangul_text)
    /\ hpc' = "decomposed"
    /\ UNCHANGED <<hangul_text, hangul_out, engineVars, flagVars, searchVars, compileVars, importVars, rulekindVars, manageVars>>

HangulCompose ==
    /\ hpc = "decomposed"
    /\ hangul_out' = compose_hangul(hangul_jamo)
    /\ hpc' = "composed"
    /\ UNCHANGED <<hangul_text, hangul_jamo, engineVars, flagVars, searchVars, compileVars, importVars, rulekindVars, manageVars>>

NextHangul == HangulDecompose \/ HangulCompose

SpecHangul == InitHangul /\ [][NextHangul]_vars

\* C11: for every string of precomposed syllable blocks, with no, single or
\* cluster trailing consonants in any mix, composing the decomposed string
\* gives the string back.
C11_HangulRoundTrip ==
    hpc = "composed" => hangul_out = hangul_text

\* a string of two syllables has been recomposed: the first ends in a
\* trailing consonant that combine_jong would join with the lead consonant
\* of the second (ㄱ + ㅅ)
C11_Witness ==
    /\ hpc = "composed"
    /\ Len(hangul_text) = 2
    /\ (hangul_text[1] - 44032) % 28 = 1
    /\ (hangul_text[2] - 44032) \div (21 * 28) = 9
    /\ Len(hangul_jamo) >= 5

\* the passes compose_hangul made over the decomposed string
Passes == ComposeSteps(hangul_jamo, 0)

\* the indexes (from 0) of the jamo a pass attached as trailing consonant
AttachedBy(pass) == { pass.at + k : k \in 2..(pass.consumed - 1) }

\* C24: during recomposition no jamo is attached as a trailing consonant,
\* alone or as the second half of a combined cluster, when the jamo right
\* after it is a vowel; a lead consonant followed by a vowel starts a
\* syllable of its own.
C24_NoTrailingConsonantBeforeVowel ==
    hpc = "composed" =>
        /\ hangul_out = [ k \in DOMAIN Passes |-> Passes[k].pushed ]
        /\ \A k \in DOMAIN Passes : \A at \in AttachedBy(Passes[k]) :
              ~(at + 1 < Len(hangul_jamo) /\ is_jung(hangul_jamo[at + 2]))
        /\ \A at \in 0..(Len(hangul_jamo) - 2) :
              (is_cho(hangul_jamo[at + 1]) /\ is_jung(hangul_jamo[at + 2]))
                  => \E k \in DOMAIN Passes :
                         /\ Passes[k].at = at
                         /\ Passes[k].consumed >= 2
                         /\ (Passes[k].pushed - 44032) \div (21 * 28)
                                = get_cho_idx(hangul_jamo[at + 1])

\* a recomposed string whose first syllable took one trailing consonant and
\* left the next consonant, which combine_jong would have joined to it, to
\* the vowel after it; and whose second syllable has no trailing consonant
C24_Witness ==
    /\ hpc = "composed"
    /\ Len(Passes) = 2
    /\ Passes[1].consumed = 3
    /\ combine_jong(hangul_jamo[3], hangul_jamo[4]) # None
    /\ is_jung(hangul_jamo[5])
    /\ Passes[2].at = 3

(***************************************************************************)
(* LanguageTransformer::from_descriptor, rule by rule, with the condition  *)
(* flag table already built                                                *)
(***************************************************************************)
\* mutant of RuleConditionFlags: a name that is not in the table counts as 0
RECURSIVE RuleConditionFlags_UnknownAsZero(_, _)
RuleConditionFlags_UnknownAsZero(map, names) ==
    IF names = <<>> THEN Some(NoFlags)
    ELSE Some(BitOr(IF Head(names) \in DOMAIN map THEN map[Head(names)] ELSE NoFlags,
                    Unwrap(RuleConditionFlags_UnknownAsZero(map, Tail(names)))))

\* `get_condition_flags_strict(&condition_flags_map, &rule_def.conditions_in)`
RuleConditionFlags(map, names) == get_condition_flags_strict(map, names)

\* rule definitions whose condition names are in the table ("v", "n") or
\* not ("x")
CompileRuleDefs ==
    { [ kind |-> [ type |-> "Suffix", inflected |-> << 97 >>, deinflected |-> << 98 >> ],
        conditions_in |-> cin, conditions_out |-> cout ] :
        cin \in { <<>>, << "v" >>, << "x" >>, << "v", "x" >> },
        cout \in { <<>>, << "n" >>, << "x" >> } }

CompileDescriptors ==
    { << [ id |-> "t1", rules |-> << r >> ] >> : r \in CompileRuleDefs }
    \cup { << [ id |-> "t1", rules |-> << r, q >> ] >> : r, q \in CompileRuleDefs }
    \cup { << [ id |-> "t1", rules |-> << r >> ], [ id |-> "t2", rules |-> << q >> ] >> :
             r, q \in CompileRuleDefs }

InitCompile ==
    /\ descriptor \in CompileDescriptors
    /\ built_transforms = <<>>
    /\ built_rules = <<>>
    /\ transform_pos = 0
    /\ rule_pos = 0
    /\ compile_result = None
    /\ cpc = "rules"
    /\ EngineIdle
    /\ FlagsIdle
    /\ SearchIdle
    /\ HangulIdle
    /\ ImportIdle
    /\ RulekindIdle
    /\ ManageIdle

\* one iteration of `for (rule_index, rule_def) in transform_def.rules`
CompileRuleStep ==
    /\ cpc = "rules"
    /\ transform_pos < Len(descriptor)
    /\ rule_pos < Len(descriptor[transform_pos + 1].rules)
    /\ LET transform_def == descriptor[transform_pos + 1]
           rule_def == transform_def.rules[rule_pos + 1]
           conditions_in == RuleConditionFlags(EngineFlags, rule_def.conditions_in)
           conditions_out == RuleConditionFlags(EngineFlags, rule_def.conditions_out)
           Failed(field) ==
               /\ compile_result' =
                      Some([ ok |-> FALSE,
                             error |-> [ field |-> field, transform |-> transform_def.id,
                                         rule |-> rule_pos ] ])
               /\ cpc' = "err"
               /\ UNCHANGED <<built_rules, rule_pos>>
       IN  IF conditions_in = None THEN Failed("conditionsIn")
           ELSE IF conditions_out = None THEN Failed("conditionsOut")
           ELSE /\ built_rules' = Append(built_rules,
                      [ transform_id |-> transform_def.id,
                        rule_index |-> rule_pos,
                        conditions_in |-> Unwrap(conditions_in),
                        conditions_out |-> Unwrap(conditions_out),
                        kind |-> rule_def.kind ])
                /\ rule_pos' = rule_pos + 1
                /\ UNCHANGED <<compile_result, cpc>>
    /\ UNCHANGED <<descriptor, built_transforms, transform_pos,
                   engineVars, flagVars, searchVars, hangulVars, importVars, rulekindVars, manageVars>>

\* the rules of a transform are done: `transforms.push(Transform { id, rules })`
CompileTransformEnd ==
    /\ cpc = "rules"
    /\ transform_pos < Len(descriptor)
    /\ rule_pos >= Len(descriptor[transform_pos + 1].rules)
    /\ built_transforms' = Append(built_transforms,
           [ id |-> descriptor[transform_pos + 1].id, rules |-> built_rules ])
    /\ built_rules' = <<>>
    /\ rule_pos' = 0
    /\ transform_pos' = transform_pos + 1
    /\ UNCHANGED <<descriptor, compile_result, cpc,
                   engineVars, flagVars, searchVars, hangulVars, importVars, rulekindVars, manageVars>>

\* `Ok(Self { transforms, condition_flags_map })`
CompileReturn ==
    /\ cpc = "rules"
    /\ transform_pos >= Len(descriptor)
    /\ compile_result' = Some([ ok |-> TRUE, transformer |-> built_transforms ])
    /\ cpc' = "ok"
    /\ UNCHANGED <<descriptor, built_transforms, built_rules, transform_pos, rule_pos,
                   engineVars, flagVars, searchVars, hangulVars, importVars, rulekindVars, manageVars>>

NextCompile == CompileRuleStep \/ CompileTransformEnd \/ CompileReturn

SpecCompile == InitCompile /\ [][NextCompile]_vars

\* the names a rule definition uses that the flag table does not hold
UnknownIn(names) == { k \in DOMAIN names : names[k] \notin DOMAIN EngineFlags }

\* the rules of the descriptor, in order, that use an unknown name
BadRules ==
    { tr \in { p \in (DOMAIN descriptor) \X {1, 2} : p[2] \in DOMAIN descriptor[p[1]].rules } :
        LET rule_def == descriptor[tr[1]].rules[tr[2]]
        IN  UnknownIn(rule_def.conditions_in) # {} \/ UnknownIn(rule_def.conditions_out) # {} }

FirstBadRule ==
    CHOOSE tr \in BadRules :
        \A other \in BadRules :
            tr[1] < other[1] \/ (tr[1] = other[1] /\ tr[2] <= other[2])

\* C13: when a rule names a condition the flag table does not hold,
\* from_descriptor returns an error naming the transform id and the index of
\* the first such rule and the field at fault, and no transformer; only a
\* descriptor without unknown names gives a transformer, which then holds
\* every rule of the descriptor.
C13_UnknownConditionIsAnError ==
    /\ cpc = "ok" =>
          /\ BadRules = {}
          /\ Unwrap(compile_result).ok
          /\ Unwrap(compile_result).transformer = from_descriptor(EngineFlags, descriptor)
    /\ cpc = "err" =>
          /\ BadRules # {}
          /\ ~Unwrap(compile_result).ok
          /\ DOMAIN Unwrap(compile_result) = {"ok", "error"}
          /\ LET bad == FirstBadRule
                 rule_def == descriptor[bad[1]].rules[bad[2]]
             IN  Unwrap(compile_result).error =
                     [ field |-> IF UnknownIn(rule_def.conditions_in) # {}
                                 THEN "conditionsIn" ELSE "conditionsOut",
                       transform |-> descriptor[bad[1]].id,
                       rule |-> bad[2] - 1 ]
    /\ (cpc = "rules" /\ BadRules # {}) => compile_result = None

\* the second rule of a transform names an unknown condition in its
\* conditions_out only, after a first rule that compiled
C13_Witness ==
    /\ cpc = "err"
    /\ Unwrap(compile_result).error =
           [ field |-> "conditionsOut", transform |-> "t1", rule |-> 1 ]
    /\ Len(built_rules) = 1

\* C15: search never panics for any input text, Latin words with multi-byte
\* characters before a suffix included.
C15_SearchNeverPanics == spc # "panicked"

\* the byte offsets of s that lie on a character boundary
Boundaries(s) == { ByteLen(SubSeq(s, 1, k)) : k \in 0..Len(s) }

\* the number of characters of s before the greatest boundary <= offset
CharsBefore(s, offset) ==
    CHOOSE k \in 0..Len(s) :
        /\ ByteLen(SubSeq(s, 1, k)) <= offset
        /\ \A b \in Boundaries(s) : b <= offset => b <= ByteLen(SubSeq(s, 1, k))

\* C16: once a call has taken its window, the window is the text from the
\* greatest character boundary that is <= cursor_offset on (at most
\* WindowChars characters of it); a call whose cursor_offset is at or beyond
\* the end of the text returns the empty list.
C16_WindowStartsAtBoundary ==
    spc # "start" =>
        IF cursor_offset >= ByteLen(query_text)
        THEN spc = "returned" /\ returned[call] = Some(<<>>)
        ELSE LET k == CharsBefore(query_text, cursor_offset)
                 rest_of_text == SubSeq(query_text, k + 1, Len(query_text))
             IN  /\ chars # <<>>
                 /\ Len(chars) <= WindowChars
                 /\ chars = SubSeq(rest_of_text, 1, Len(chars))
                 /\ Len(chars) = WindowChars \/ chars = rest_of_text

\* a call whose cursor lies inside a multi-byte character, past the first
\* character of the text, has taken its window
C16_Witness ==
    /\ spc = "loop"
    /\ cursor_offset \notin Boundaries(query_text)
    /\ cursor_offset > Utf8Len(Head(query_text))
    /\ chars # <<>>

\* the dictionary of a row or result is switched off in state.dictionaries
Disabled(dict_id) == dict_id \in DOMAIN dictionaries /\ ~dictionaries[dict_id].enabled

\* the rows the statement selects for a submitted word
RowsOf(word) == { r \in DOMAIN terms_table : terms_table[r].term = word }

SubmittedWords == { submitted[q].word : q \in DOMAIN submitted }

\* C17: no result, found or returned, belongs to a dictionary that is
\* disabled in the configuration the call read.  The readable rows of a
\* dictionary without configuration entry are kept for every submitted word,
\* and in the returned list such a result ranks as priority 999: among
\* results of equal match length it never precedes a configured dictionary's.
C17_NoDisabledDictionary ==
    /\ \A x \in 1..Len(found) : ~Disabled(found[x].source)
    /\ \A c \in ReturnedCalls : \A x \in 1..Len(Output(c)) : ~Disabled(Output(c)[x].source)
    /\ \A word \in SubmittedWords : \A r \in RowsOf(word) :
          (/\ terms_table[r].dictionary_id \notin DOMAIN dictionaries
           /\ terms_table[r].json # None)
              => \E x \in 1..Len(found) : found[x].row = r /\ found[x].term = word
    /\ spc = "returned" =>
          LET out == Output(call)
              Priority999(e) == IF e.source \in DOMAIN dictionaries
                                THEN dictionaries[e.source].priority ELSE 999
          IN  /\ \A x \in 1..Len(found) : \E y \in 1..Len(out) : out[y] = found[x]
              /\ \A x, y \in 1..Len(out) :
                    (x < y /\ out[x].span_chars_end = out[y].span_chars_end)
                        => Priority999(out[x]) <= Priority999(out[y])

\* a returned list that holds a result of the unconfigured dictionary 3 and
\* of the enabled dictionary 2 with the same match length, for a call that
\* submitted a word with a readable row in the disabled dictionary 1
C17_Witness ==
    /\ spc = "returned"
    /\ Disabled(1)
    /\ \E word \in SubmittedWords : \E r \in RowsOf(word) :
          terms_table[r].dictionary_id = 1 /\ terms_table[r].json # None
    /\ \E x, y \in 1..Len(Output(call)) :
          /\ Output(call)[x].source = 2
          /\ Output(call)[y].source = 3
          /\ Output(call)[x].span_chars_end = Output(call)[y].span_chars_end

\* C18: a row that cannot be decoded is skipped and nothing else is: for
\* every word submitted to the store, each of its rows in a dictionary that
\* is not disabled has a result exactly when it is readable, whether it comes
\* before or after an unreadable row, and the returned list holds them all.
C18_OnlyCorruptRowSkipped ==
    /\ \A word \in SubmittedWords : \A r \in RowsOf(word) :
          ~Disabled(terms_table[r].dictionary_id) =>
              (terms_table[r].json # None
                  <=> \E x \in 1..Len(found) : found[x].row = r /\ found[x].term = word)
    /\ spc = "returned" =>
          \A word \in SubmittedWords : \A r \in RowsOf(word) :
              (~Disabled(terms_table[r].dictionary_id) /\ terms_table[r].json # None)
                  => \E y \in 1..Len(Output(call)) :
                         Output(call)[y].row = r /\ Output(call)[y].term = word

\* a returned call that met an unreadable row of an enabled dictionary and
\* returned results of rows before and after it for the same word, and of a
\* candidate submitted after that word
C18_Witness ==
    /\ spc = "returned"
    /\ \E q \in DOMAIN submitted : \E r \in RowsOf(submitted[q].word) :
          /\ terms_table[r].json = None
          /\ ~Disabled(terms_table[r].dictionary_id)
          /\ \E x, y \in 1..Len(Output(call)) :
                /\ Output(call)[x].term = submitted[q].word
                /\ Output(call)[y].term = submitted[q].word
                /\ Output(call)[x].row < r
                /\ Output(call)[y].row > r
          /\ \E p \in DOMAIN submitted : \E y \in 1..Len(Output(call)) :
                p > q /\ Output(call)[y].term = submitted[p].word

\* the substring of length n, and whether the loop skips it
WindowPrefix(n) == SubSeq(chars, 1, n)

SkippedLength(n) ==
    /\ script = "Latin"
    /\ n < 2
    /\ ~eq_ignore_ascii_case(WindowPrefix(n), << 97 >>)
    /\ ~eq_ignore_ascii_case(WindowPrefix(n), << 105 >>)

\* the candidates of the substring of length n, in order
CandidatesAt(n) ==
    generate_candidates(WindowPrefix(n), script, tokenizer[WindowPrefix(n)]).candidates

\* the occurrences of a word in the scan: <<length, position>> of every valid
\* candidate with that word
OccurrencesOf(word) ==
    { nk \in UNION { { << n, k >> : k \in DOMAIN CandidatesAt(n) } :
                        n \in { m \in 1..Len(chars) : ~SkippedLength(m) } } :
        /\ CandidatesAt(nk[1])[nk[2]].word = word
        /\ is_valid_candidate(WindowPrefix(nk[1]), word, script) }

\* the first occurrence in scan order: lengths descending, then list order
FirstOccurrence(word) ==
    CHOOSE nk \in OccurrencesOf(word) :
        \A other \in OccurrencesOf(word) :
            \/ nk[1] > other[1]
            \/ nk[1] = other[1] /\ nk[2] <= other[2]

SpanOf(nk) == CandidatesAt(nk[1])[nk[2]].source_len

\* C23 as stated: each word is submitted at most once, and the span reported
\* for its rows is the largest span any occurrence of the word in the call
\* would have reported.
C23_FirstSpanIsLargest ==
    /\ \A p, q \in DOMAIN submitted : p # q => submitted[p].word # submitted[q].word
    /\ spc = "returned" =>
          \A x \in 1..Len(found) : \A nk \in OccurrencesOf(found[x].term) :
              found[x].span_chars_end >= SpanOf(nk)

\* C23 (amended): each word is submitted at most once in a call, and the span
\* reported for its rows is the one of its first occurrence in scan order.
\* That is the largest span of any occurrence unless the first occurrence is
\* Lindera's lemma, whose span is the length of the first token and may be
\* less than the span a later occurrence would have reported.
C23_FirstOccurrenceWins ==
    /\ \A p, q \in DOMAIN submitted : p # q => submitted[p].word # submitted[q].word
    /\ spc = "returned" =>
          \A x \in 1..Len(found) :
              /\ OccurrencesOf(found[x].term) # {}
              /\ found[x].span_chars_end = SpanOf(FirstOccurrence(found[x].term))
              /\ found[x].substring_len = FirstOccurrence(found[x].term)[1]
              /\ found[x].reason # "Lindera" =>
                    \A nk \in OccurrencesOf(found[x].term) :
                        found[x].span_chars_end >= SpanOf(nk)

\* a returned call in which Lindera's lemma occurred at two lengths, was
\* submitted once, for the longer one, and has a smaller span than its
\* occurrence at the shorter length would have reported
C23_Witness ==
    /\ spc = "returned"
    /\ \E x \in 1..Len(found) : \E nk \in OccurrencesOf(found[x].term) :
          /\ found[x].reason = "Lindera"
          /\ nk[1] < found[x].substring_len
          /\ found[x].span_chars_end < SpanOf(nk)
          /\ Cardinality({ q \in DOMAIN submitted : submitted[q].word = found[x].term }) = 1

\* C30: every candidate word search hands to the store query is non-empty,
\* whatever the script: a substring that is nothing but a recognised prefix
\* or suffix gives no empty candidate that is looked up.
C30_NoEmptyCandidateSubmitted ==
    \A q \in DOMAIN submitted : submitted[q].word # <<>>


(***************************************************************************)
(* import_zip (import.rs): the duplicate-name check and the registration   *)
(* of the dictionary, run by threads of the blocking pool                  *)
(* (handlers.rs: spawn_blocking in import_handler and                      *)
(* install_language_internal).                                             *)
(***************************************************************************)
\* str::trim_start, str::trim_end, str::trim
RECURSIVE trim_start(_)
trim_start(s) ==
    IF s # <<>> /\ is_whitespace(Head(s)) THEN trim_start(Tail(s)) ELSE s

RECURSIVE trim_end(_)
trim_end(s) ==
    IF s # <<>> /\ is_whitespace(s[Len(s)]) THEN trim_end(SubSeq(s, 1, Len(s) - 1)) ELSE s

trim(s) == trim_end(trim_start(s))

\* `dict_name.trim().to_lowercase()`
normalized_name(name) == to_lowercase(trim(name))

\* the titles of the archives
Title_Dict == << 68, 105, 99, 116 >>              \* "Dict"
Title_dict == << 100, 105, 99, 116, 32 >>         \* "dict "
Title_DICT == << 32, 68, 73, 67, 84 >>            \* " DICT"
Title_Kanji == << 75, 97, 110, 106, 105 >>        \* "Kanji"
Titles == { Title_Dict, Title_dict, Title_DICT, Title_Kanji }

\* the threads that run import_zip
ImportThreads == {1, 2}

\* ids handed out at most
MaxDictionaries == 3

\* `dicts.values().any(|dict| dict.name.trim().to_lowercase() == normalized_name)`
AlreadyImported(dicts_map, name) ==
    \E id \in DOMAIN dicts_map :
        normalized_name(dicts_map[id].name) = normalized_name(name)

InitImport ==
    /\ state_dictionaries = <<>>
    /\ next_dict_id = 1
    /\ dict_name = [ p \in ImportThreads |-> <<>> ]
    /\ import_dict_id = [ p \in ImportThreads |-> 0 ]
    /\ import_result = [ p \in ImportThreads |-> "none" ]
    /\ ipc = [ p \in ImportThreads |-> "idle" ]
    /\ EngineIdle
    /\ FlagsIdle
    /\ SearchIdle
    /\ HangulIdle
    /\ CompileIdle
    /\ RulekindIdle
    /\ ManageIdle

\* a call that returns before it reads the title: the archive is too large,
\* is no zip, has no index.json or not format 3
ImportInvalid(p) ==
    /\ ipc[p] = "idle"
    /\ import_result' = [ import_result EXCEPT ![p] = "invalid archive" ]
    /\ UNCHANGED <<state_dictionaries, next_dict_id, dict_name, import_dict_id, ipc,
                   engineVars, flagVars, searchVars, hangulVars, compileVars, rulekindVars, manageVars>>

\* a call reads the title and checks it under the read lock of
\* state.dictionaries; the lock is released at the end of the block.  The
\* call has no dictionary id yet.
ImportCheck(p, title) ==
    /\ ipc[p] = "idle"
    /\ dict_name' = [ dict_name EXCEPT ![p] = title ]
    /\ IF AlreadyImported(state_dictionaries, title)
       THEN /\ import_result' = [ import_result EXCEPT ![p] = "already imported" ]
            /\ UNCHANGED ipc
       ELSE /\ import_result' = [ import_result EXCEPT ![p] = "running" ]
            /\ ipc' = [ ipc EXCEPT ![p] = "checked" ]
    /\ import_dict_id' = [ import_dict_id EXCEPT ![p] = 0 ]
    /\ UNCHANGED <<state_dictionaries, next_dict_id,
                   engineVars, flagVars, searchVars, hangulVars, compileVars, rulekindVars, manageVars>>

\* pool.get, conn.transaction, then the block under the write lock of
\* next_dict_id: take the id, INSERT INTO dictionaries, insert into
\* state.dictionaries.  pool.get, transaction and execute may fail.
ImportRegister(p) ==
    /\ ipc[p] = "checked"
    /\ next_dict_id <= MaxDictionaries
    /\ \E outcome \in {"registered", "no connection", "insert failed"} :
          CASE outcome = "no connection" ->
                   /\ import_result' = [ import_result EXCEPT ![p] = "error" ]
                   /\ ipc' = [ ipc EXCEPT ![p] = "idle" ]
                   /\ UNCHANGED <<state_dictionaries, next_dict_id, import_dict_id>>
            [] outcome = "insert failed" ->
                   /\ next_dict_id' = next_dict_id + 1
                   /\ import_result' = [ import_result EXCEPT ![p] = "error" ]
                   /\ ipc' = [ ipc EXCEPT ![p] = "idle" ]
                   /\ UNCHANGED <<state_dictionaries, import_dict_id>>
            [] outcome = "registered" ->
                   /\ next_dict_id' = next_dict_id + 1
                   /\ import_dict_id' = [ import_dict_id EXCEPT ![p] = next_dict_id ]
                   /\ state_dictionaries' =
                          [ id \in (DOMAIN state_dictionaries) \cup {next_dict_id} |->
                              IF id = next_dict_id
                              THEN [ id |-> next_dict_id, name |-> dict_name[p],
                                     priority |-> 0, enabled |-> TRUE ]
                              ELSE state_dictionaries[id] ]
                   /\ ipc' = [ ipc EXCEPT ![p] = "registered" ]
                   /\ UNCHANGED import_result
    /\ UNCHANGED <<dict_name, engineVars, flagVars, searchVars, hangulVars, compileVars, rulekindVars, manageVars>>

\* the rest of the import: media, banks, commit.  An error returns with `?`
\* and drops the transaction; state.dictionaries keeps the entry.
ImportBanks(p) ==
    /\ ipc[p] = "registered"
    /\ \E outcome \in {"Imported", "error"} :
          import_result' = [ import_result EXCEPT ![p] = outcome ]
    /\ ipc' = [ ipc EXCEPT ![p] = "idle" ]
    /\ UNCHANGED <<state_dictionaries, next_dict_id, dict_name, import_dict_id,
                   engineVars, flagVars, searchVars, hangulVars, compileVars, rulekindVars, manageVars>>

NextImport ==
    \/ \E p \in ImportThreads : ImportInvalid(p)
    \/ \E p \in ImportThreads : \E title \in Titles : ImportCheck(p, title)
    \/ \E p \in ImportThreads : ImportRegister(p)
    \/ \E p \in ImportThreads : ImportBanks(p)

SpecImport == InitImport /\ [][NextImport]_vars

\* C19: no two registered dictionaries have names that are equal after
\* trimming and lower-casing, whatever import_zip calls have run, concurrent
\* ones included.
C19_NoDuplicateNames ==
    \A a, b \in DOMAIN state_dictionaries :
        a # b => normalized_name(state_dictionaries[a].name)
                     # normalized_name(state_dictionaries[b].name)

\* C28: when a call of import_zip has returned an error, state.dictionaries
\* holds no entry of that call, so that a later call for the same archive is
\* not turned away as already imported.
C28_FailedImportLeavesNoEntry ==
    \A p \in ImportThreads :
        (ipc[p] = "idle" /\ import_result[p] = "error")
            => import_dict_id[p] \notin DOMAIN state_dictionaries

(***************************************************************************)
(* RuleKind::is_inflected and RuleKind::deinflect (transformer.rs) applied *)
(* to one text, in the order the rule loop of transform_with_trace applies *)
(* them: deinflect is only called on a text is_inflected accepted.         *)
(***************************************************************************)
MaxAffixTextLen == 4

\* 'a', 'b' and the Arabic letter beh
AffixAlphabet == {97, 98, 1576}

RECURSIVE AffixTexts(_)
AffixTexts(n) ==
    IF n = 0 THEN { <<>> }
    ELSE AffixTexts(n - 1)
         \cup { Append(s, c) : s \in { t \in AffixTexts(n - 1) : Len(t) = n - 1 },
                               c \in AffixAlphabet }

AffixKinds ==
    [ type : {"Affix"},
      inflected_prefix : { <<>>, <<97>>, <<97, 98>> },
      deinflected_prefix : { <<120>> },
      inflected_suffix : { <<>>, <<97>>, <<98, 97>> },
      deinflected_suffix : { <<>>, <<121, 122>> },
      initial_disallow : { None, Some(98) },
      final_disallow : { None, Some(98) },
      require_arabic_letters : BOOLEAN ]

Word_runs == <<114, 117, 110, 115>>
Word_run == <<114, 117, 110>>
Word_s == <<115>>
Word_up == <<117, 112>>
Word_with == <<119, 105, 116, 104>>
Word_it == <<105, 116>>

\* first word, separator, second word, with or without whitespace around
\* them and a third word behind them
PhrasalTexts ==
    { lead \o first \o sep \o second \o tail :
        lead \in { <<>>, <<32>> },
        first \in { Word_runs, Word_run, Word_s },
        sep \in { <<>>, <<32>>, <<32, 32>>, <<9>> },
        second \in { Word_up, Word_with, Word_it },
        tail \in { <<>>, <<10>>, <<32>> \o Word_up } }

PhrasalKinds ==
    [ type : {"EnglishPhrasalSuffix"},
      inflected : { <<115>>, <<110, 115>> },
      deinflected : { <<>>, <<110>> } ]
    \cup { [ type |-> "EnglishPhrasalInterposedObject" ] }

InitRuleKind ==
    /\ \/ rule_kind \in AffixKinds /\ rule_text \in AffixTexts(MaxAffixTextLen)
       \/ rule_kind \in PhrasalKinds /\ rule_text \in PhrasalTexts
    /\ rule_matched = FALSE
    /\ rule_result = None
    /\ rule_pc = "start"
    /\ EngineIdle
    /\ FlagsIdle
    /\ SearchIdle
    /\ HangulIdle
    /\ CompileIdle
    /\ ImportIdle
    /\ ManageIdle

\* `if !rule.kind.is_inflected(&current.text) { continue; }`
IsInflected ==
    /\ rule_pc = "start"
    /\ rule_matched' = is_inflected(rule_kind, rule_text)
    /\ rule_pc' = IF is_inflected(rule_kind, rule_text) THEN "tested" ELSE "skipped"
    /\ UNCHANGED <<rule_kind, rule_text, rule_result, engineVars, flagVars, searchVars, hangulVars, compileVars, importVars, manageVars>>

\* `if let Some(deinflected_text) = rule.kind.deinflect(&current.text)`
Deinflect ==
    /\ rule_pc = "tested"
    /\ rule_result' = deinflect(rule_kind, rule_text)
    /\ rule_pc' = "done"
    /\ UNCHANGED <<rule_kind, rule_text, rule_matched, engineVars, flagVars, searchVars, hangulVars, compileVars, importVars, manageVars>>

NextRuleKind == IsInflected \/ Deinflect

SpecRuleKind == InitRuleKind /\ [][NextRuleKind]_vars

RuleKindDecided == rule_pc \in {"skipped", "done"}

\* the stems s with rule_text = inflected_prefix \o s \o inflected_suffix
AffixStems ==
    { s \in { SubSeq(rule_text, a, b) : a \in 1..(Len(rule_text) + 1),
                                        b \in 0..Len(rule_text) } :
        rule_text = rule_kind.inflected_prefix \o s \o rule_kind.inflected_suffix }

\* the guards of an Affix rule on a stem
StemPasses(stem) ==
    /\ rule_kind.require_arabic_letters =>
          /\ stem # <<>>
          /\ \A k \in DOMAIN stem :
                \/ (stem[k] >= 1568 /\ stem[k] <= 1631)
                \/ (stem[k] >= 1646 /\ stem[k] <= 1747)
                \/ stem[k] \in {1749, 1774, 1775, 1786, 1787, 1788, 1791}
    /\ rule_kind.initial_disallow # None =>
          ~(stem # <<>> /\ stem[1] = Unwrap(rule_kind.initial_disallow))
    /\ rule_kind.final_disallow # None =>
          ~(stem # <<>> /\ stem[Len(stem)] = Unwrap(rule_kind.final_disallow))

\* the text between the two affixes when they are cut off the text each on
\* its own
StemBetween ==
    IF Len(rule_kind.inflected_prefix) + Len(rule_kind.inflected_suffix) <= Len(rule_text)
    THEN SubSeq(rule_text, Len(rule_kind.inflected_prefix) + 1,
                Len(rule_text) - Len(rule_kind.inflected_suffix))
    ELSE <<>>

\* C25 as stated: an Affix rule matches exactly when the text starts with
\* inflected_prefix and ends with inflected_suffix, each tested on the whole
\* text, and the stem between them passes the guards.
C25_IndependentChecks ==
    (RuleKindDecided /\ rule_kind.type = "Affix") =>
        (rule_matched <=>
            /\ StartsWith(rule_text, rule_kind.inflected_prefix)
            /\ EndsWith(rule_text, rule_kind.inflected_suffix)
            /\ StemPasses(StemBetween))

\* C25: an Affix rule matches exactly when the text is inflected_prefix,
\* then a stem, then inflected_suffix, the two affixes not sharing a
\* character, and the stem passes the guards (non-empty and all Arabic
\* letters when required, first character not initial_disallow, last
\* character not final_disallow); the result of a match is
\* deinflected_prefix + stem + deinflected_suffix.
C25_AffixMatchesDisjointAffixes ==
    (RuleKindDecided /\ rule_kind.type = "Affix") =>
        /\ rule_matched <=> \E stem \in AffixStems : StemPasses(stem)
        /\ rule_pc = "done" =>
              \E stem \in AffixStems :
                  /\ StemPasses(stem)
                  /\ rule_result = Some(rule_kind.deinflected_prefix \o stem
                                            \o rule_kind.deinflected_suffix)

\* an Affix rule was applied to a text that starts with its prefix and ends
\* with its suffix where the two overlap ("aba", prefix "ab", suffix "ba"),
\* with no guard in the way, and the rule did not match
C25_Witness ==
    /\ rule_kind.type = "Affix"
    /\ rule_pc = "skipped"
    /\ rule_kind.inflected_prefix # <<>>
    /\ rule_kind.inflected_suffix # <<>>
    /\ StartsWith(rule_text, rule_kind.inflected_prefix)
    /\ EndsWith(rule_text, rule_kind.inflected_suffix)
    /\ Len(rule_kind.inflected_prefix) + Len(rule_kind.inflected_suffix)
          > Len(rule_text)
    /\ ~rule_kind.require_arabic_letters
    /\ rule_kind.initial_disallow = None
    /\ rule_kind.final_disallow = None

\* the words of the text, split at runs of whitespace
WordsOf(text) == split_whitespace(text)

\* C26 as stated: the phrasal-suffix rule matches only a text of exactly two
\* whitespace-separated words whose second word is a known particle and whose
\* first word ends with the inflected suffix.
C26_SecondWordIsParticle ==
    (RuleKindDecided /\ rule_kind.type = "EnglishPhrasalSuffix" /\ rule_matched) =>
        /\ Len(WordsOf(rule_text)) = 2
        /\ WordsOf(rule_text)[2] \in english_phrasal_particles
        /\ EndsWith(WordsOf(rule_text)[1], rule_kind.inflected)

\* C26: the phrasal-suffix rule matches exactly the texts of two
\* whitespace-separated words whose second word is a known particle or a
\* known preposition and whose first word ends with the inflected suffix, and
\* it returns stem + deinflected suffix + one space + that second word.
C26_SecondWordIsParticleOrPreposition ==
    (RuleKindDecided /\ rule_kind.type = "EnglishPhrasalSuffix") =>
        /\ rule_matched <=>
              /\ Len(WordsOf(rule_text)) = 2
              /\ WordsOf(rule_text)[2] \in
                    (english_phrasal_particles \cup english_phrasal_prepositions)
              /\ EndsWith(WordsOf(rule_text)[1], rule_kind.inflected)
        /\ rule_pc = "done" =>
              rule_result =
                  Some(SubSeq(WordsOf(rule_text)[1], 1,
                              Len(WordsOf(rule_text)[1]) - Len(rule_kind.inflected))
                       \o rule_kind.deinflected \o <<32>> \o WordsOf(rule_text)[2])

\* the rule was applied to "runs", two spaces, "with": it matched though
\* "with" is a preposition and no particle, and the result has one space
C26_Witness ==
    /\ rule_pc = "done"
    /\ rule_kind.type = "EnglishPhrasalSuffix"
    /\ rule_text = Word_runs \o <<32, 32>> \o Word_with
    /\ rule_kind.inflected = <<115>>
    /\ rule_result = Some(Word_run \o rule_kind.deinflected \o <<32>> \o Word_with)

(***************************************************************************)
(* manage_dictionaries_handler (handlers.rs) running beside search.        *)
(* The handler executes its statements in a transaction, changes           *)
(* state.dictionaries under the write lock, and commits afterwards; search *)
(* reads state.dictionaries once, under the read lock, and the terms table *)
(* as committed.                                                           *)
(***************************************************************************)
MaxManageActions == 2

Toggle(id, enabled) == [ action |-> "Toggle", id |-> id, enabled |-> enabled ]
Delete(id) == [ action |-> "Delete", id |-> id ]
Reorder(order) == [ action |-> "Reorder", order |-> order ]

DictionaryActions ==
    { Toggle(id, e) : id \in {1, 2}, e \in BOOLEAN }
        \cup { Delete(id) : id \in {1, 2} }
        \cup { Reorder(order) : order \in { <<1, 2>>, <<2, 1>>, <<2>> } }

\* `if let Some(d) = dicts.get_mut(&DictionaryId(id)) { d.enabled = enabled; }`
\* and what the UPDATE does to the row of that id
SetEnabled(dicts, id, enabled) ==
    IF id \in DOMAIN dicts THEN [ dicts EXCEPT ![id].enabled = enabled ] ELSE dicts

SetPriority(dicts, id, priority) ==
    IF id \in DOMAIN dicts THEN [ dicts EXCEPT ![id].priority = priority ] ELSE dicts

\* `dicts.remove(&DictionaryId(id))`, and the DELETE of the row of that id
Remove(dicts, id) == [ d \in (DOMAIN dicts) \ {id} |-> dicts[d] ]

\* the first n passes of `for (index, id) in order.iter().enumerate()`
RECURSIVE ReorderFirst(_, _, _)
ReorderFirst(dicts, order, n) ==
    IF n = 0 THEN dicts
    ELSE SetPriority(ReorderFirst(dicts, order, n - 1), order[n], n - 1)

\* `DELETE FROM terms WHERE dictionary_id = ?` for the ids in deleted
RECURSIVE DeleteTerms(_, _)
DeleteTerms(table, deleted) ==
    IF table = <<>> THEN <<>>
    ELSE IF Head(table).dictionary_id \in deleted THEN DeleteTerms(Tail(table), deleted)
    ELSE << Head(table) >> \o DeleteTerms(Tail(table), deleted)

InitManage ==
    /\ query_text = Text_Unis
    /\ cursor_offset = 0
    /\ dictionaries \in DictionaryConfigs
    /\ dictionaries_table = dictionaries
    /\ terms_table = Table(5, 9, 0)
    /\ tokenizer \in Tokenizers(query_text, cursor_offset)
    /\ call = 1
    /\ returned = [ c \in 1..2 |-> None ]
    /\ FreshCall
    /\ manage_action = None
    /\ manage_tx = None
    /\ manage_result = None
    /\ manage_count = 0
    /\ mpc = "ready"
    /\ EngineIdle
    /\ FlagsIdle
    /\ HangulIdle
    /\ CompileIdle
    /\ ImportIdle
    /\ RulekindIdle

\* the handler answers {"status": "error"}: the transaction, if one is open,
\* is dropped and rolls back
ManageError ==
    /\ manage_result' = Some("error")
    /\ manage_tx' = None
    /\ manage_count' = manage_count + 1
    /\ mpc' = "ready"
    /\ UNCHANGED <<dictionaries_table, terms_table>>

\* the transaction is open with its statements executed, state.dictionaries
\* is changed, the commit is still to come
ManageToCommit(tx_dictionaries, deleted, dicts) ==
    /\ manage_tx' = Some([ dictionaries |-> tx_dictionaries, deleted |-> deleted ])
    /\ dictionaries' = dicts
    /\ mpc' = "commit"
    /\ UNCHANGED <<manage_result, manage_count, dictionaries_table, terms_table>>

\* from the entry of the blocking task to the end of the `match action`
ManageExecute(act) ==
    /\ mpc = "ready"
    /\ manage_count < MaxManageActions
    /\ manage_action' = Some(act)
    /\ \/ \* pool.get() or conn.transaction() fails, or the (first) statement
          /\ ManageError
          /\ UNCHANGED dictionaries
       \/ /\ act.action = "Toggle"
          /\ ManageToCommit(SetEnabled(dictionaries_table, act.id, act.enabled), {},
                            SetEnabled(dictionaries, act.id, act.enabled))
       \/ /\ act.action = "Delete"
          /\ ManageToCommit(Remove(dictionaries_table, act.id), {act.id},
                            Remove(dictionaries, act.id))
       \/ /\ act.action = "Reorder"
          /\ \E executed \in 0..Len(act.order) :
                IF executed < Len(act.order)
                THEN \* stmt.execute fails in pass `executed` of the loop
                     /\ ManageError
                     /\ dictionaries' = ReorderFirst(dictionaries, act.order, executed)
                ELSE ManageToCommit(
                         ReorderFirst(dictionaries_table, act.order, executed), {},
                         ReorderFirst(dictionaries, act.order, executed))
    /\ UNCHANGED <<query_text, cursor_offset, tokenizer, call, dict_configs, chars, script,
                   len, processed_candidates, submitted, found, returned, spc,
                   engineVars, flagVars, hangulVars, compileVars, importVars, rulekindVars>>

\* tx.commit(), the VACUUM after a Delete, and the answer
ManageCommit ==
    /\ mpc = "commit"
    /\ \/ \* the commit fails and the transaction rolls back
          /\ manage_result' = Some("error")
          /\ UNCHANGED <<dictionaries_table, terms_table>>
       \/ /\ dictionaries_table' = Unwrap(manage_tx).dictionaries
          /\ terms_table' = DeleteTerms(terms_table, Unwrap(manage_tx).deleted)
          /\ \/ manage_result' = Some("ok")
             \/ \* should_vacuum is set and the VACUUM fails
                /\ Unwrap(manage_action).action = "Delete"
                /\ manage_result' = Some("error")
    /\ manage_tx' = None
    /\ manage_count' = manage_count + 1
    /\ mpc' = "ready"
    /\ UNCHANGED <<manage_action, query_text, cursor_offset, dictionaries, tokenizer, call,
                   dict_configs, chars, script, len, processed_candidates, submitted, found,
                   returned, spc,
                   engineVars, flagVars, hangulVars, compileVars, importVars, rulekindVars>>

NextManage ==
    \/ SearchStart
    \/ SearchLen
    \/ SearchSort
    \/ \E act \in DictionaryActions : ManageExecute(act)
    \/ ManageCommit

SpecManage == InitManage /\ [][NextManage]_vars

\* what the scan of search finds from length n down, for the call's window and
\* snapshot and the store as it is
RECURSIVE ScanFrom(_, _)
ScanFrom(n, acc) ==
    IF n = 0 THEN acc
    ELSE LET substring == SubSeq(chars, 1, n)
             skip == /\ script = "Latin"
                     /\ n < 2
                     /\ ~eq_ignore_ascii_case(substring, << 97 >>)
                     /\ ~eq_ignore_ascii_case(substring, << 105 >>)
         IN  ScanFrom(n - 1,
                 IF skip THEN acc
                 ELSE ProcessCandidates(
                          generate_candidates(substring, script, tokenizer[substring]).candidates,
                          substring, script, dict_configs, terms_table, acc))

\* the list a call with snapshot dict_configs returns when nothing runs beside it
UndisturbedOutput ==
    sort_by(dict_configs,
            ScanFrom(Len(chars), [ processed |-> {}, queries |-> <<>>,
                                   entries |-> <<>> ]).entries)

\* the configuration has changed since the call took its snapshot
ConfigChangedSince ==
    /\ DOMAIN dictionaries = DOMAIN dict_configs
    /\ \E d \in DOMAIN dictionaries : dictionaries[d].enabled # dict_configs[d].enabled
    /\ \E d \in DOMAIN dictionaries : dictionaries[d].priority # dict_configs[d].priority

\* C27: a call of search takes its snapshot of state.dictionaries in one
\* piece when it starts and keeps it to its end; what the call returns is
\* the list an undisturbed call with that snapshot returns, rows and order,
\* whatever Toggle and Reorder did to state.dictionaries in the meantime.
C27_SingleSnapshot ==
    /\ [](spc = "returned" /\ terms_table \in Stores
             => Output(call) = UndisturbedOutput)
    /\ [][ /\ (spc = "start" /\ spc' = "loop") =>
                /\ DOMAIN dict_configs' = DOMAIN dictionaries
                /\ \A d \in DOMAIN dictionaries : dict_configs'[d] = dictionaries[d]
           /\ spc = "loop" => dict_configs' = dict_configs ]_vars

\* a call has returned rows of dictionaries 1 and 2 for the same span while a
\* Toggle had disabled one of them and a Reorder had swapped their priorities
\* since the call's snapshot
C27_Witness ==
    /\ spc = "returned"
    /\ terms_table \in Stores
    /\ ConfigChangedSince
    /\ \E x, y \in 1..Len(Output(call)) :
          /\ x < y
          /\ Output(call)[x].span_chars_end = Output(call)[y].span_chars_end
          /\ {Output(call)[x].source, Output(call)[y].source} = {1, 2}
          /\ ~dictionaries[Output(call)[x].source].enabled
          /\ dictionaries[Output(call)[x].source].priority
                > dictionaries[Output(call)[y].source].priority

\* C29: whenever the handler has answered a manage action, with ok or with
\* error, state.dictionaries agrees with the persisted dictionaries table in
\* the set of dictionaries, their enabled flags and their priorities.
C29_MemoryAgreesWithTable ==
    (mpc = "ready" /\ manage_result # None) => dictionaries = dictionaries_table


====
